---- MODULE Spec2Model ----
\* Model of the browser front end of the image editor (src/script.js):
\* the module-level state, the DOM properties the script reads and writes,
\* the event handlers registered by setupEventListeners, and the
\* continuations of the two asynchronous operations (image decode and the
\* background-removal request).  Handlers run to completion; the model has
\* one action per handler or continuation.
EXTENDS Integers, Sequences, FiniteSets, TLC

\* ---------------------------------------------------------------------
\* Bounds of the exploration
\* ---------------------------------------------------------------------
\* number of accepted file selections explored
MaxUploads == 2
\* number of background-removal requests explored
MaxRequests == 2

\* ---------------------------------------------------------------------
\* Program constants
\* ---------------------------------------------------------------------
MAX_IMAGE_WIDTH == 1920
\* slider ranges (attributes of the two range inputs)
MaxBlur == 15
MaxGrain == 50
\* padding of the blur working surface: min(blurAmount * 3, 100)
PadFactor == 3
PadCap == 100

\* values the user moves the sliders to
BlurValues == {0, 8}
GrainValues == {0, MaxGrain}

\* ---------------------------------------------------------------------
\* Strings are sequences of one-character strings, so that startsWith,
\* split and concatenation are computed and not assumed.
\* ---------------------------------------------------------------------
ImagePrefix == <<"i","m","a","g","e","/">>
EditedSuffix == <<"_","e","d","i","t","e","d",".","p","n","g">>
DefaultFileName == <<"i","m","a","g","e",".","p","n","g">>

TypePng == <<"i","m","a","g","e","/","p","n","g">>
TypeJpeg == <<"i","m","a","g","e","/","j","p","e","g">>
TypeText == <<"t","e","x","t","/","p","l","a","i","n">>

\* The files the user can pick: name, MIME type, whether the bytes decode
\* as an image, and the intrinsic size of the decoded image.
Files ==
  << [name |-> <<"a",".","p","n","g">>, type |-> TypePng,
      decodable |-> TRUE, width |-> 800, height |-> 600],
     [name |-> <<"n","o","t","e","s",".","t","x","t">>, type |-> TypeText,
      decodable |-> FALSE, width |-> 0, height |-> 0],
     [name |-> <<"b","a","d">>, type |-> TypeJpeg,
      decodable |-> FALSE, width |-> 0, height |-> 0],
     [name |-> <<"w",".","v","2",".","p","n","g">>, type |-> TypePng,
      decodable |-> TRUE, width |-> 3840, height |-> 1] >>

FileIds == 1..Len(Files)

\* notices shown with alert()
NoNotice == "none"
NotImageNotice == "Please upload an image file"
FailNotice == "Failed to process background. Check API key or connection."

VARIABLES
  originalImage,    \* 0 (null) or the upload whose decoded Image it is
  maskImage,        \* 0 (null) or the request whose Image object it is
  fileName,         \* download name
  isProcessing,
  currentFile,      \* 0 (null) or the upload whose File it is
  blurValue,        \* blurInput.value
  grainValue,       \* grainInput.value
  blurDisabled,     \* blurInput.disabled
  grainDisabled,    \* grainInput.disabled
  downloadDisabled, \* downloadBtn.disabled
  overlayHidden,    \* loadingOverlay.hidden
  canvasShown,      \* mainCanvas is displayed
  placeholderShown, \* uploadPlaceholder is displayed
  canvasW,          \* mainCanvas.width
  canvasH,          \* mainCanvas.height
  frame,            \* what the main canvas shows
  uploads,          \* accepted files: [file, img] with img the state of its Image
  requests,         \* background-removal requests: [file, stage]
  notice,           \* the alert shown by the last handler
  link,             \* the download link clicked by the last handler
  lastEvent,        \* the handler that ran last and its input
  pendingReupload   \* history: the current file was selected while a loaded
                    \* cutout was present, and no blur input > 0 came since

vars == << originalImage, maskImage, fileName, isProcessing, currentFile,
           blurValue, grainValue, blurDisabled, grainDisabled,
           downloadDisabled, overlayHidden, canvasShown, placeholderShown,
           canvasW, canvasH, frame, uploads, requests, notice, link,
           lastEvent, pendingReupload >>

\* the variables of src/script.js lines 12-21
scriptVars == << originalImage, maskImage, fileName, isProcessing, currentFile >>
\* slider values
sliderVars == << blurValue, grainValue >>
\* the three controls and the overlay
controlVars == << blurDisabled, grainDisabled, downloadDisabled, overlayHidden >>
\* canvas and placeholder
canvasVars == << canvasShown, placeholderShown, canvasW, canvasH, frame >>

\* ---------------------------------------------------------------------
\* Pure helpers
\* ---------------------------------------------------------------------
Min(a, b) == IF a < b THEN a ELSE b

\* startsWith that compares the lengths only
startsWithLengthOnly(s, p) == Len(s) >= Len(p)

\* String.prototype.startsWith
startsWith(s, p) ==
  /\ Len(s) >= Len(p)
  /\ SubSeq(s, 1, Len(p)) = p

\* s.split('.')[0]: the part before the first dot, all of s without a dot
RECURSIVE splitFirst(_)
splitFirst(s) ==
  IF s = <<>> \/ Head(s) = "." THEN <<>>
  ELSE <<Head(s)>> \o splitFirst(Tail(s))

\* file.name.split('.')[0] + '_edited.png'
editedName(name) == splitFirst(name) \o EditedSuffix

\* ---------------------------------------------------------------------
\* IEEE-754 double arithmetic, as far as (MAX_IMAGE_WIDTH / w) * h needs
\* it.  A positive double is [bits, exp]: bits is the significand, most
\* significant bit first, and the value is bits read as a binary integer
\* divided by 2^exp.
\* ---------------------------------------------------------------------
\* bits of the significand of a double
Precision == 53
\* the long division and the multiplication work on digits of 8 bits
DigitBits == 8
DigitBase == 256
\* digits of the fraction a division produces before it rounds
FractionDigits == 10

\* binary digits of the natural number n, empty for 0
RECURSIVE natBits(_)
natBits(n) == IF n = 0 THEN <<>> ELSE Append(natBits(n \div 2), n % 2)

\* the natural number with the binary digits b
RECURSIVE bitsNat(_)
bitsNat(b) ==
  IF b = <<>> THEN 0
  ELSE 2 * bitsNat(SubSeq(b, 1, Len(b) - 1)) + b[Len(b)]

\* b + 1 on binary digits
incBits(b) ==
  IF \A i \in 1..Len(b) : b[i] = 1
  THEN <<1>> \o [i \in 1..Len(b) |-> 0]
  ELSE LET z == CHOOSE i \in 1..Len(b) :
                  b[i] = 0 /\ \A j \in (i + 1)..Len(b) : b[j] = 1
       IN [i \in 1..Len(b) |-> IF i < z THEN b[i] ELSE IF i = z THEN 1 ELSE 0]

\* the binary digits of a sequence of 8-bit digits
digitsBits(ds) ==
  [j \in 1..(DigitBits * Len(ds)) |->
     (ds[((j - 1) \div DigitBits) + 1]
        \div 2^(DigitBits - 1 - ((j - 1) % DigitBits))) % 2]

\* the 8-bit digits of binary digits, padded with zeros on the left
bitsDigits(b) ==
  LET n == (Len(b) + DigitBits - 1) \div DigitBits
      fill == DigitBits * n - Len(b)
      bit(j) == IF j <= fill THEN 0 ELSE b[j - fill]
      at(k, j) == bit(DigitBits * (k - 1) + j)
  IN [k \in 1..n |->
        128 * at(k, 1) + 64 * at(k, 2) + 32 * at(k, 3) + 16 * at(k, 4)
        + 8 * at(k, 5) + 4 * at(k, 6) + 2 * at(k, 7) + at(k, 8)]

\* 8-bit digits of the natural number n, empty for 0
RECURSIVE natDigits(_)
natDigits(n) ==
  IF n = 0 THEN <<>>
  ELSE Append(natDigits(n \div DigitBase), n % DigitBase)

\* rounding to nearest, ties to even, of the value with binary digits b
\* over 2^exp to a significand of Precision bits; sticky tells that the
\* exact value has further nonzero digits after b
roundDouble(b, exp, sticky) ==
  IF \A i \in 1..Len(b) : b[i] = 0 THEN [bits |-> <<>>, exp |-> 0]
  ELSE
    LET first == CHOOSE i \in 1..Len(b) :
                   b[i] = 1 /\ \A j \in 1..(i - 1) : b[j] = 0
        sig == SubSeq(b, first, Len(b))
    IN IF Len(sig) <= Precision THEN [bits |-> sig, exp |-> exp]
       ELSE LET kept == SubSeq(sig, 1, Precision)
                rest == SubSeq(sig, Precision + 1, Len(sig))
                more == sticky \/ \E i \in 2..Len(rest) : rest[i] = 1
                up == rest[1] = 1 /\ (more \/ kept[Precision] = 1)
            IN [bits |-> IF up THEN incBits(kept) ELSE kept,
                exp |-> exp - Len(rest)]

\* the digits of the fraction r / d, n of them at most, and the remainder
\* left after them; the division ends when nothing remains
RECURSIVE fracDigits(_, _, _)
fracDigits(r, d, n) ==
  IF n = 0 \/ r = 0 THEN [digits |-> <<>>, rem |-> r]
  ELSE LET rest == fracDigits((r * DigitBase) % d, d, n - 1)
       IN [digits |-> <<(r * DigitBase) \div d>> \o rest.digits,
           rem |-> rest.rem]

\* the double a / b for natural numbers a and b > 0 below 2^20
divDouble(a, b) ==
  LET f == fracDigits(a % b, b, FractionDigits)
  IN roundDouble(natBits(a \div b) \o digitsBits(f.digits),
                 DigitBits * Len(f.digits), f.rem # 0)

\* the digits d[1..i] times the natural number h, plus carry
RECURSIVE mulDigits(_, _, _, _)
mulDigits(d, i, h, carry) ==
  IF i = 0 THEN natDigits(carry)
  ELSE Append(mulDigits(d, i - 1, h, (d[i] * h + carry) \div DigitBase),
              (d[i] * h + carry) % DigitBase)

\* the double x * h for a double x and a natural number h below 2^20
mulDouble(x, h) ==
  LET d == bitsDigits(x.bits)
  IN roundDouble(digitsBits(mulDigits(d, Len(d), h, 0)), x.exp, FALSE)

\* conversion of a double to the unsigned integer a canvas size holds:
\* the fraction is dropped
truncDouble(x) ==
  IF Len(x.bits) <= x.exp THEN 0
  ELSE bitsNat(SubSeq(x.bits, 1, Len(x.bits) - x.exp))

\* canvas size for an image of intrinsic size w x h: w and h as they are
\* when w <= MAX_IMAGE_WIDTH, otherwise MAX_IMAGE_WIDTH and the double
\* (MAX_IMAGE_WIDTH / w) * h, which the assignment to canvas.height
\* truncates to an integer
scaledWidth(w) == IF w > MAX_IMAGE_WIDTH THEN MAX_IMAGE_WIDTH ELSE w
scaledHeight(w, h) ==
  IF w > MAX_IMAGE_WIDTH
  THEN truncDouble(mulDouble(divDouble(MAX_IMAGE_WIDTH, w), h))
  ELSE h

\* the padding taken as six times the radius
padOfDiameter(blur) == Min(blur * 2 * PadFactor, PadCap)

\* what the blur branch of render() does for a canvas of w x h and the
\* slider value blur: the padding, the size of the offscreen canvas, and
\* the drawImage calls.  A call with a source rectangle reads the rectangle
\* (sx, sy, sw, sh) of originalImage, in the pixels of the image itself, and
\* paints it over the rectangle (dx, dy, dw, dh) of the offscreen canvas.
padOf(blur) == Min(blur * PadFactor, PadCap)

NoSurface == [pad |-> 0]

\* the blur branch with the offscreen canvas drawn back at the origin
blurSurfaceAtOrigin(w, h, blur) ==
  LET pad == padOf(blur)
  IN [pad |-> pad,
      ow |-> w + (pad * 2),
      oh |-> h + (pad * 2),
      centre |-> [dx |-> pad, dy |-> pad, dw |-> w, dh |-> h],
      top |-> [sx |-> 0, sy |-> 0, sw |-> w, sh |-> 1,
               dx |-> pad, dy |-> 0, dw |-> w, dh |-> pad],
      bottom |-> [sx |-> 0, sy |-> h - 1, sw |-> w, sh |-> 1,
                  dx |-> pad, dy |-> h + pad, dw |-> w, dh |-> pad],
      left |-> [sx |-> 0, sy |-> 0, sw |-> 1, sh |-> h,
                dx |-> 0, dy |-> pad, dw |-> pad, dh |-> h],
      right |-> [sx |-> w - 1, sy |-> 0, sw |-> 1, sh |-> h,
                 dx |-> w + pad, dy |-> pad, dw |-> pad, dh |-> h],
      tl |-> [sx |-> 0, sy |-> 0, sw |-> 1, sh |-> 1,
              dx |-> 0, dy |-> 0, dw |-> pad, dh |-> pad],
      tr |-> [sx |-> w - 1, sy |-> 0, sw |-> 1, sh |-> 1,
              dx |-> w + pad, dy |-> 0, dw |-> pad, dh |-> pad],
      bl |-> [sx |-> 0, sy |-> h - 1, sw |-> 1, sh |-> 1,
              dx |-> 0, dy |-> h + pad, dw |-> pad, dh |-> pad],
      br |-> [sx |-> w - 1, sy |-> h - 1, sw |-> 1, sh |-> 1,
              dx |-> w + pad, dy |-> h + pad, dw |-> pad, dh |-> pad],
      back |-> [dx |-> 0, dy |-> 0]]

blurSurface(w, h, blur) ==
  LET pad == padOf(blur)
  IN [pad |-> pad,
      ow |-> w + (pad * 2),
      oh |-> h + (pad * 2),
      centre |-> [dx |-> pad, dy |-> pad, dw |-> w, dh |-> h],
      top |-> [sx |-> 0, sy |-> 0, sw |-> w, sh |-> 1,
               dx |-> pad, dy |-> 0, dw |-> w, dh |-> pad],
      bottom |-> [sx |-> 0, sy |-> h - 1, sw |-> w, sh |-> 1,
                  dx |-> pad, dy |-> h + pad, dw |-> w, dh |-> pad],
      left |-> [sx |-> 0, sy |-> 0, sw |-> 1, sh |-> h,
                dx |-> 0, dy |-> pad, dw |-> pad, dh |-> h],
      right |-> [sx |-> w - 1, sy |-> 0, sw |-> 1, sh |-> h,
                 dx |-> w + pad, dy |-> pad, dw |-> pad, dh |-> h],
      tl |-> [sx |-> 0, sy |-> 0, sw |-> 1, sh |-> 1,
              dx |-> 0, dy |-> 0, dw |-> pad, dh |-> pad],
      tr |-> [sx |-> w - 1, sy |-> 0, sw |-> 1, sh |-> 1,
              dx |-> w + pad, dy |-> 0, dw |-> pad, dh |-> pad],
      bl |-> [sx |-> 0, sy |-> h - 1, sw |-> 1, sh |-> 1,
              dx |-> 0, dy |-> h + pad, dw |-> pad, dh |-> pad],
      br |-> [sx |-> w - 1, sy |-> h - 1, sw |-> 1, sh |-> 1,
              dx |-> w + pad, dy |-> h + pad, dw |-> pad, dh |-> pad],
      back |-> [dx |-> 0 - pad, dy |-> 0 - pad]]

\* the canvas before anything is drawn on it: img is the image of the base
\* layer, blur the filter it was drawn with, surface the offscreen canvas
\* it came through, cut the cutout drawn over it, cutBlur the filter the
\* cutout was drawn with, grain the intensity of the grain pass, data the
\* pixels where they are followed one by one (empty where only the layers
\* are followed), filter the value of ctx.filter (0 for 'none')
BlankFrame == [img |-> 0, blur |-> 0, pad |-> 0, surface |-> NoSurface,
               cut |-> 0, cutBlur |-> 0, grain |-> 0, data |-> <<>>,
               filter |-> 0]
NoLink == [download |-> <<>>, href |-> BlankFrame]

\* state of the Image object created by request r
maskState(reqs, r) ==
  IF r = 0 THEN "null"
  ELSE IF reqs[r].stage = "done" THEN "loaded"
  ELSE IF reqs[r].stage = "broken" THEN "broken"
  ELSE "loading"

\* ---------------------------------------------------------------------
\* generateGrain.  A pixel is [r, g, b, a] with channels in 0..255.  Noise
\* and the sums data[i] + noise are counted in units of 1 / NoiseUnit, on
\* which strength / 2 = intensity * 2.55 / 2 is the whole number
\* 255 * intensity.
\* ---------------------------------------------------------------------
NoiseUnit == 200
MaxByte == 255

\* values of (Math.random() - 0.5) * strength followed by the model
NoiseSamples ==
  {0 - 12750, 0 - 5100, 0 - 255, 0 - 100, 0, 100, 254, 4000, 5099, 12749}

\* (Math.random() - 0.5) * strength with Math.random() in [0, 1)
noiseRange(intensity) ==
  {n \in NoiseSamples :
     /\ 100 * 2 * n >= 0 - (intensity * 255 * NoiseUnit)
     /\ 100 * 2 * n < intensity * 255 * NoiseUnit}

\* the assignment as a plain byte array makes it: rounded down and wrapped
\* around modulo 256
clampByteWraps(v) == (v \div NoiseUnit) % (MaxByte + 1)

\* assignment of the number v / NoiseUnit to an element of a
\* Uint8ClampedArray: clamped to 0..255, rounded to the nearest integer,
\* a tie to the even one
clampByte(v) ==
  IF v <= 0 THEN 0
  ELSE IF v >= MaxByte * NoiseUnit THEN MaxByte
  ELSE LET q == v \div NoiseUnit
           rest == v % NoiseUnit
       IN IF 2 * rest < NoiseUnit THEN q
          ELSE IF 2 * rest > NoiseUnit THEN q + 1
          ELSE IF q % 2 = 0 THEN q ELSE q + 1

\* the body of the loop with the noise added to the alpha channel too
grainPixelWithAlpha(p, n) ==
  [r |-> clampByte(p.r * NoiseUnit + n),
   g |-> clampByte(p.g * NoiseUnit + n),
   b |-> clampByte(p.b * NoiseUnit + n),
   a |-> clampByte(p.a * NoiseUnit + n)]

\* the body of the loop for one pixel p and its noise n
grainPixel(p, n) ==
  [r |-> clampByte(p.r * NoiseUnit + n),
   g |-> clampByte(p.g * NoiseUnit + n),
   b |-> clampByte(p.b * NoiseUnit + n),
   a |-> p.a]

\* the loop with the noise added to the red channel only
generateGrainRedOnly(data, intensity, noise) ==
  [i \in 1..Len(data) |->
     [data[i] EXCEPT !.r = clampByte(data[i].r * NoiseUnit + noise[i])]]

\* generateGrain on the pixels data, noise[i] being the noise drawn for
\* pixel i
generateGrain(data, intensity, noise) ==
  [i \in 1..Len(data) |-> grainPixel(data[i], noise[i])]

\* step 3 of render(): the grain pass when grainAmount > 0
grainPass(fr, grain, noise) ==
  IF grain > 0
  THEN [fr EXCEPT !.grain = grain,
                  !.data = generateGrain(fr.data, grain, noise)]
  ELSE fr

\* a clearRect that leaves the canvas as it was
clearRectKeeps(old) == old

\* ctx.clearRect(0, 0, w, h): the pixels go, the state of the context stays
clearRect(old) == [BlankFrame EXCEPT !.filter = old.filter]

\* render() with the offscreen canvas laid out for a square of side w
renderSquareSurface(orig, mask, reqs, blur, grain, w, h, old) ==
  IF orig = 0 THEN [frame |-> old, threw |-> FALSE]
  ELSE
    LET blurred == mask # 0 /\ blur > 0
        base == [clearRect(old) EXCEPT
                   !.img = orig,
                   !.blur = IF blurred THEN blur ELSE old.filter,
                   !.filter = IF blurred THEN 0 ELSE old.filter,
                   !.pad = IF blurred THEN padOf(blur) ELSE 0,
                   !.surface = IF blurred THEN blurSurface(w, w, blur)
                               ELSE NoSurface]
        ms == maskState(reqs, mask)
    IN IF ms = "broken" THEN [frame |-> base, threw |-> TRUE]
       ELSE
         LET comp == IF ms = "loaded"
                     THEN [base EXCEPT !.cut = mask, !.cutBlur = base.filter]
                     ELSE base
         IN IF grain > 0
            THEN IF w = 0 \/ h = 0
                 THEN [frame |-> comp, threw |-> TRUE]
                 ELSE [frame |-> grainPass(comp, grain, <<>>), threw |-> FALSE]
            ELSE [frame |-> comp, threw |-> FALSE]

\* render(): the frame drawn and whether a DOM exception ended the call.
\* drawImage of an Image that is still loading draws nothing, drawImage of
\* a broken Image throws, getImageData of an empty rectangle throws.  The
\* layers are followed, not the pixels: the pixel data stays empty.
render(orig, mask, reqs, blur, grain, w, h, old) ==
  IF orig = 0 THEN [frame |-> old, threw |-> FALSE]
  ELSE
    LET blurred == mask # 0 /\ blur > 0
        base == [clearRect(old) EXCEPT
                   !.img = orig,
                   !.blur = IF blurred THEN blur ELSE old.filter,
                   !.filter = IF blurred THEN 0 ELSE old.filter,
                   !.pad = IF blurred THEN padOf(blur) ELSE 0,
                   !.surface = IF blurred THEN blurSurface(w, h, blur)
                               ELSE NoSurface]
        ms == maskState(reqs, mask)
    IN IF ms = "broken" THEN [frame |-> base, threw |-> TRUE]
       ELSE
         LET comp == IF ms = "loaded"
                     THEN [base EXCEPT !.cut = mask, !.cutBlur = base.filter]
                     ELSE base
         IN IF grain > 0
            THEN IF w = 0 \/ h = 0
                 THEN [frame |-> comp, threw |-> TRUE]
                 ELSE [frame |-> grainPass(comp, grain, <<>>), threw |-> FALSE]
            ELSE [frame |-> comp, threw |-> FALSE]

\* ---------------------------------------------------------------------
\* Initial state: the page as loaded, before any file is chosen.  The
\* controls start disabled, the placeholder visible and the canvas hidden
\* (test 'page loads correctly with initial state'); the slider values are
\* not read before the first decode resets them.
\* ---------------------------------------------------------------------
Init ==
  /\ originalImage = 0
  /\ maskImage = 0
  /\ fileName = DefaultFileName
  /\ isProcessing = FALSE
  /\ currentFile = 0
  /\ blurValue = 0
  /\ grainValue = 0
  /\ blurDisabled = TRUE
  /\ grainDisabled = TRUE
  /\ downloadDisabled = TRUE
  /\ overlayHidden = TRUE
  /\ canvasShown = FALSE
  /\ placeholderShown = TRUE
  /\ canvasW = 0
  /\ canvasH = 0
  /\ frame = BlankFrame
  /\ uploads = <<>>
  /\ requests = <<>>
  /\ notice = NoNotice
  /\ link = NoLink
  /\ lastEvent = [kind |-> "init", arg |-> 0]
  /\ pendingReupload = FALSE

\* ---------------------------------------------------------------------
\* setLoading and enableControls
\* ---------------------------------------------------------------------
setLoading(isLoading) ==
  /\ overlayHidden' = ~isLoading
  /\ blurDisabled' = isLoading
  /\ grainDisabled' = isLoading
  /\ downloadDisabled' = isLoading

\* enableControls that leaves the download button as it was
enableControlsNoDownload ==
  /\ blurDisabled' = FALSE
  /\ grainDisabled' = FALSE
  /\ UNCHANGED downloadDisabled

enableControls ==
  /\ blurDisabled' = FALSE
  /\ grainDisabled' = FALSE
  /\ downloadDisabled' = FALSE

\* ---------------------------------------------------------------------
\* handleFile(file), up to the assignment of img.src
\* ---------------------------------------------------------------------
\* a file whose type does not start with 'image/': alert and return
RejectFile(f) ==
  /\ ~startsWith(Files[f].type, ImagePrefix)
  /\ notice' = NotImageNotice
  /\ link' = NoLink
  /\ lastEvent' = [kind |-> "reject", arg |-> f]
  /\ UNCHANGED << scriptVars, sliderVars, controlVars, canvasVars,
                  uploads, requests, pendingReupload >>

\* handleFile that enables the controls as soon as the file is accepted
AcceptFileEnables(f) ==
  /\ startsWith(Files[f].type, ImagePrefix)
  /\ Len(uploads) < MaxUploads
  /\ uploads' = Append(uploads, [file |-> f, img |-> "loading"])
  /\ currentFile' = Len(uploads) + 1
  /\ fileName' = editedName(Files[f].name)
  /\ maskImage' = 0
  /\ isProcessing' = FALSE
  /\ notice' = NoNotice
  /\ link' = NoLink
  /\ lastEvent' = [kind |-> "select", arg |-> f]
  /\ pendingReupload' = (maskState(requests, maskImage) = "loaded")
  /\ enableControls
  /\ UNCHANGED << originalImage, sliderVars, overlayHidden, canvasVars, requests >>

AcceptFile(f) ==
  /\ startsWith(Files[f].type, ImagePrefix)
  /\ Len(uploads) < MaxUploads
  /\ uploads' = Append(uploads, [file |-> f, img |-> "loading"])
  /\ currentFile' = Len(uploads) + 1
  /\ fileName' = editedName(Files[f].name)
  /\ maskImage' = 0
  /\ isProcessing' = FALSE
  /\ notice' = NoNotice
  /\ link' = NoLink
  /\ lastEvent' = [kind |-> "select", arg |-> f]
  /\ pendingReupload' = (maskState(requests, maskImage) = "loaded")
  /\ UNCHANGED << originalImage, sliderVars, controlVars, canvasVars, requests >>

handleFile(f) == RejectFile(f) \/ AcceptFile(f)

\* img.onload of upload u
DecodeLoad(u) ==
  /\ uploads[u].img = "loading"
  /\ Files[uploads[u].file].decodable
  /\ uploads' = [uploads EXCEPT ![u].img = "loaded"]
  /\ originalImage' = u
  /\ canvasW' = scaledWidth(Files[uploads[u].file].width)
  /\ canvasH' = scaledHeight(Files[uploads[u].file].width,
                             Files[uploads[u].file].height)
  /\ frame' = [BlankFrame EXCEPT !.img = u]
  /\ canvasShown' = TRUE
  /\ placeholderShown' = FALSE
  /\ enableControls
  /\ blurValue' = 0
  /\ grainValue' = 0
  /\ notice' = NoNotice
  /\ link' = NoLink
  /\ lastEvent' = [kind |-> "decodeLoad", arg |-> u]
  /\ UNCHANGED << maskImage, fileName, isProcessing, currentFile,
                  overlayHidden, requests, pendingReupload >>

\* the decode of upload u fails; img has no error handler
DecodeError(u) ==
  /\ uploads[u].img = "loading"
  /\ ~Files[uploads[u].file].decodable
  /\ uploads' = [uploads EXCEPT ![u].img = "error"]
  /\ notice' = NoNotice
  /\ link' = NoLink
  /\ lastEvent' = [kind |-> "decodeError", arg |-> u]
  /\ UNCHANGED << scriptVars, sliderVars, controlVars, canvasVars, requests,
                  pendingReupload >>

\* ---------------------------------------------------------------------
\* Slider handlers
\* ---------------------------------------------------------------------
\* the condition without the test of maskImage
needsRemovalNoMaskTest(v, mask, processing, file) ==
  v > 0 /\ ~processing /\ file # 0

\* the condition under which the blur handler calls removeBackground
needsRemoval(v, mask, processing, file) ==
  v > 0 /\ mask = 0 /\ ~processing /\ file # 0

\* removeBackground(file) up to its first await: the re-entrancy guard,
\* the flag, setLoading(true) and the request sent with fetch
removeBackground(file) ==
  IF isProcessing
  THEN UNCHANGED << requests, isProcessing, controlVars >>
  ELSE /\ Len(requests) < MaxRequests
       /\ isProcessing' = TRUE
       /\ setLoading(TRUE)
       /\ requests' = Append(requests, [file |-> file, stage |-> "fetch"])

\* blurInput 'input' handler with the slider moved to v: render(), then
\* removeBackground(currentFile) when needed.  An exception in render()
\* ends the handler.  event is what an observer records of the call.
blurHandler(v, event) ==
  /\ ~blurDisabled
  /\ LET r == render(originalImage, maskImage, requests, v, grainValue,
                     canvasW, canvasH, frame)
     IN /\ blurValue' = v
        /\ frame' = r.frame
        /\ IF ~r.threw /\ needsRemoval(v, maskImage, isProcessing, currentFile)
           THEN removeBackground(currentFile)
           ELSE UNCHANGED << requests, isProcessing, controlVars >>
  /\ notice' = NoNotice
  /\ link' = NoLink
  /\ lastEvent' = event
  /\ pendingReupload' = (pendingReupload /\ v = 0)
  /\ UNCHANGED << originalImage, maskImage, fileName, currentFile, grainValue,
                  canvasShown, placeholderShown, canvasW, canvasH, uploads >>

BlurInput(v) == blurHandler(v, [kind |-> "blur", arg |-> v])

\* the grain handler without its call of render(): the slider moves and the
\* canvas keeps the previous picture
grainHandlerNoRender(g, event) ==
  /\ ~grainDisabled
  /\ grainValue' = g
  /\ notice' = NoNotice
  /\ link' = NoLink
  /\ lastEvent' = event
  /\ UNCHANGED << scriptVars, blurValue, controlVars, canvasShown,
                  placeholderShown, canvasW, canvasH, uploads, requests,
                  pendingReupload, frame >>

\* grainInput 'input' handler with the slider moved to g: render()
grainHandler(g, event) ==
  /\ ~grainDisabled
  /\ grainValue' = g
  /\ frame' = render(originalImage, maskImage, requests, blurValue, g,
                     canvasW, canvasH, frame).frame
  /\ notice' = NoNotice
  /\ link' = NoLink
  /\ lastEvent' = event
  /\ UNCHANGED << scriptVars, blurValue, controlVars, canvasShown,
                  placeholderShown, canvasW, canvasH, uploads, requests,
                  pendingReupload >>

GrainInput(g) == grainHandler(g, [kind |-> "grain", arg |-> g])

\* downloadBtn 'click' handler
downloadImage ==
  /\ ~downloadDisabled
  /\ link' = [download |-> fileName, href |-> frame]
  /\ notice' = NoNotice
  /\ lastEvent' = [kind |-> "download", arg |-> 0]
  /\ UNCHANGED << scriptVars, sliderVars, controlVars, canvasVars,
                  uploads, requests, pendingReupload >>

\* ---------------------------------------------------------------------
\* removeBackground: the continuations after its awaits
\* ---------------------------------------------------------------------
\* the catch block
catchFailure(r, kind) ==
  /\ requests' = [requests EXCEPT ![r].stage = "failed"]
  /\ notice' = FailNotice
  /\ isProcessing' = FALSE
  /\ setLoading(FALSE)
  /\ link' = NoLink
  /\ lastEvent' = [kind |-> kind, arg |-> r]
  /\ UNCHANGED << originalImage, maskImage, fileName, currentFile,
                  sliderVars, canvasVars, uploads, pendingReupload >>

\* fetch rejects (network error)
FetchReject(r) ==
  /\ requests[r].stage = "fetch"
  /\ catchFailure(r, "fetchReject")

\* fetch resolves with a response that is not ok
FetchNotOk(r) ==
  /\ requests[r].stage = "fetch"
  /\ catchFailure(r, "fetchNotOk")

\* fetch resolves with an ok response; response.blob() is awaited
FetchOk(r) ==
  /\ requests[r].stage = "fetch"
  /\ requests' = [requests EXCEPT ![r].stage = "blob"]
  /\ notice' = NoNotice
  /\ link' = NoLink
  /\ lastEvent' = [kind |-> "fetchOk", arg |-> r]
  /\ UNCHANGED << scriptVars, sliderVars, controlVars, canvasVars, uploads,
                  pendingReupload >>

\* response.blob() rejects
BlobReject(r) ==
  /\ requests[r].stage = "blob"
  /\ catchFailure(r, "blobReject")

\* response.blob() resolves: maskImage = new Image(), its src is set
BlobOk(r) ==
  /\ requests[r].stage = "blob"
  /\ requests' = [requests EXCEPT ![r].stage = "decode"]
  /\ maskImage' = r
  /\ notice' = NoNotice
  /\ link' = NoLink
  /\ lastEvent' = [kind |-> "blobOk", arg |-> r]
  /\ UNCHANGED << originalImage, fileName, isProcessing, currentFile,
                  sliderVars, controlVars, canvasVars, uploads,
                  pendingReupload >>

\* onload of the Image created by request r
MaskLoad(r) ==
  /\ requests[r].stage = "decode"
  /\ requests' = [requests EXCEPT ![r].stage = "done"]
  /\ isProcessing' = FALSE
  /\ setLoading(FALSE)
  /\ frame' = render(originalImage, maskImage, requests', blurValue,
                     grainValue, canvasW, canvasH, frame).frame
  /\ notice' = NoNotice
  /\ link' = NoLink
  /\ lastEvent' = [kind |-> "maskLoad", arg |-> r]
  /\ UNCHANGED << originalImage, maskImage, fileName, currentFile, sliderVars,
                  canvasShown, placeholderShown, canvasW, canvasH, uploads,
                  pendingReupload >>

\* the bytes returned for request r do not decode; the Image has no
\* error handler
MaskError(r) ==
  /\ requests[r].stage = "decode"
  /\ requests' = [requests EXCEPT ![r].stage = "broken"]
  /\ notice' = NoNotice
  /\ link' = NoLink
  /\ lastEvent' = [kind |-> "maskError", arg |-> r]
  /\ UNCHANGED << scriptVars, sliderVars, controlVars, canvasVars, uploads,
                  pendingReupload >>

\* ---------------------------------------------------------------------
Next ==
  \/ \E f \in FileIds : handleFile(f)
  \/ \E u \in 1..Len(uploads) : DecodeLoad(u)
  \/ \E u \in 1..Len(uploads) : DecodeError(u)
  \/ \E v \in BlurValues : BlurInput(v)
  \/ \E g \in GrainValues : GrainInput(g)
  \/ downloadImage
  \/ \E r \in 1..Len(requests) : FetchReject(r)
  \/ \E r \in 1..Len(requests) : FetchNotOk(r)
  \/ \E r \in 1..Len(requests) : FetchOk(r)
  \/ \E r \in 1..Len(requests) : BlobReject(r)
  \/ \E r \in 1..Len(requests) : BlobOk(r)
  \/ \E r \in 1..Len(requests) : MaskLoad(r)
  \/ \E r \in 1..Len(requests) : MaskError(r)

Spec == Init /\ [][Next]_vars

TypeOK ==
  /\ originalImage \in 0..Len(uploads)
  /\ maskImage \in 0..Len(requests)
  /\ currentFile \in 0..Len(uploads)
  /\ isProcessing \in BOOLEAN
  /\ blurValue \in 0..MaxBlur
  /\ grainValue \in 0..MaxGrain
  /\ Len(uploads) <= MaxUploads
  /\ Len(requests) <= MaxRequests

\* ---------------------------------------------------------------------
\* Sizing of the canvas as a function of the intrinsic size: the state
\* after handleFile accepted an image of size w x h, and its img.onload.
\* ---------------------------------------------------------------------
SizeWidths == {1, 800, 1920, 1921, 2000, 3000, 3125, 3840}
SizeHeights == {1, 2, 600, 625, 1501, 2000, 3000}

SizeInit ==
  \E w \in SizeWidths, h \in SizeHeights :
    /\ uploads = << [file |-> 1, img |-> "loading", width |-> w, height |-> h] >>
    /\ currentFile = 1
    /\ fileName = editedName(Files[1].name)
    /\ originalImage = 0
    /\ maskImage = 0
    /\ isProcessing = FALSE
    /\ blurValue = 0
    /\ grainValue = 0
    /\ blurDisabled = TRUE
    /\ grainDisabled = TRUE
    /\ downloadDisabled = TRUE
    /\ overlayHidden = TRUE
    /\ canvasShown = FALSE
    /\ placeholderShown = TRUE
    /\ canvasW = 0
    /\ canvasH = 0
    /\ frame = BlankFrame
    /\ requests = <<>>
    /\ notice = NoNotice
    /\ link = NoLink
    /\ lastEvent = [kind |-> "select", arg |-> 1]
    /\ pendingReupload = FALSE

\* img.onload for the image of upload u, whose intrinsic size the upload
\* record carries
SizeDecode(u) ==
  /\ uploads[u].img = "loading"
  /\ uploads' = [uploads EXCEPT ![u].img = "loaded"]
  /\ originalImage' = u
  /\ canvasW' = scaledWidth(uploads[u].width)
  /\ canvasH' = scaledHeight(uploads[u].width, uploads[u].height)
  /\ frame' = [BlankFrame EXCEPT !.img = u]
  /\ canvasShown' = TRUE
  /\ placeholderShown' = FALSE
  /\ enableControls
  /\ blurValue' = 0
  /\ grainValue' = 0
  /\ notice' = NoNotice
  /\ link' = NoLink
  /\ lastEvent' = [kind |-> "decodeLoad", arg |-> u]
  /\ UNCHANGED << maskImage, fileName, isProcessing, currentFile,
                  overlayHidden, requests, pendingReupload >>

SizeNext == SizeDecode(1)

SizeSpec == SizeInit /\ [][SizeNext]_vars

\* ---------------------------------------------------------------------
\* render() as a function of the canvas size and the sliders: an accepted
\* image of size w x h is decoded, the sliders are moved, and a request
\* started by the blur slider succeeds.  The observer records with a call
\* of a slider handler the intensity of the grain that was on the canvas
\* before the call.
\* ---------------------------------------------------------------------
RenderSizes ==
  {<<1, 1>>, <<800, 600>>, <<1920, 1080>>, <<3000, 2000>>, <<3125, 625>>}
RenderGrainValues == {0, 1, MaxGrain}

RenderInit ==
  \E size \in RenderSizes :
    /\ uploads = << [file |-> 1, img |-> "loading",
                     width |-> size[1], height |-> size[2]] >>
    /\ currentFile = 1
    /\ fileName = editedName(Files[1].name)
    /\ originalImage = 0
    /\ maskImage = 0
    /\ isProcessing = FALSE
    /\ blurValue = 0
    /\ grainValue = 0
    /\ blurDisabled = TRUE
    /\ grainDisabled = TRUE
    /\ downloadDisabled = TRUE
    /\ overlayHidden = TRUE
    /\ canvasShown = FALSE
    /\ placeholderShown = TRUE
    /\ canvasW = 0
    /\ canvasH = 0
    /\ frame = BlankFrame
    /\ requests = <<>>
    /\ notice = NoNotice
    /\ link = NoLink
    /\ lastEvent = [kind |-> "select", arg |-> 1]
    /\ pendingReupload = FALSE

RenderBlur(v) ==
  blurHandler(v, [kind |-> "blur", arg |-> v, before |-> frame.grain])

RenderGrain(g) ==
  grainHandler(g, [kind |-> "grain", arg |-> g, before |-> frame.grain])

RenderNext ==
  \/ SizeDecode(1)
  \/ \E v \in 0..MaxBlur : RenderBlur(v)
  \/ \E g \in RenderGrainValues : RenderGrain(g)
  \/ \E r \in 1..Len(requests) : FetchOk(r)
  \/ \E r \in 1..Len(requests) : BlobOk(r)
  \/ \E r \in 1..Len(requests) : MaskLoad(r)

RenderSpec == RenderInit /\ [][RenderNext]_vars

\* ---------------------------------------------------------------------
\* The grain pass pixel by pixel: a decoded image of two pixels on a canvas
\* of 2 x 1, no cutout, and the grain slider moved.  Each call of render()
\* clears the canvas, draws the pixels of the image and runs the grain
\* pass with the noise drawn in that call, which the observer records.
\* ---------------------------------------------------------------------
PixelSamples ==
  { [r |-> 250, g |-> 100, b |-> 100, a |-> 255],
    [r |-> 0, g |-> 0, b |-> 0, a |-> 0],
    [r |-> 10, g |-> 20, b |-> 30, a |-> 128],
    [r |-> 255, g |-> 255, b |-> 255, a |-> 255],
    [r |-> 101, g |-> 100, b |-> 100, a |-> 200] }
GrainIntensities == {0, 1, 20, MaxGrain}

GrainInit ==
  \E p1 \in PixelSamples, p2 \in PixelSamples :
    /\ uploads = << [file |-> 1, img |-> "loaded", width |-> 2, height |-> 1,
                     pixels |-> << p1, p2 >>] >>
    /\ currentFile = 1
    /\ fileName = editedName(Files[1].name)
    /\ originalImage = 1
    /\ maskImage = 0
    /\ isProcessing = FALSE
    /\ blurValue = 0
    /\ grainValue = 0
    /\ blurDisabled = FALSE
    /\ grainDisabled = FALSE
    /\ downloadDisabled = FALSE
    /\ overlayHidden = TRUE
    /\ canvasShown = TRUE
    /\ placeholderShown = FALSE
    /\ canvasW = 2
    /\ canvasH = 1
    /\ frame = [BlankFrame EXCEPT !.img = 1, !.data = << p1, p2 >>]
    /\ requests = <<>>
    /\ notice = NoNotice
    /\ link = NoLink
    /\ lastEvent = [kind |-> "decodeLoad", arg |-> 1]
    /\ pendingReupload = FALSE

\* the noise of one call: one value for each pixel when the pass runs
noiseChoices(intensity, n) ==
  IF intensity > 0 THEN [1..n -> noiseRange(intensity)] ELSE {<<>>}

\* grainInput 'input' handler with the slider moved to g and the noise
\* that Math.random() yields in the call
GrainDraw(g, noise) ==
  /\ ~grainDisabled
  /\ originalImage # 0
  /\ grainValue' = g
  /\ frame' = grainPass([clearRect(frame) EXCEPT
                           !.img = originalImage,
                           !.data = uploads[originalImage].pixels],
                        g, noise)
  /\ notice' = NoNotice
  /\ link' = NoLink
  /\ lastEvent' = [kind |-> "grain", arg |-> g, noise |-> noise]
  /\ UNCHANGED << scriptVars, blurValue, controlVars, canvasShown,
                  placeholderShown, canvasW, canvasH, uploads, requests,
                  pendingReupload >>

GrainNext ==
  \E g \in GrainIntensities :
    \E noise \in noiseChoices(g, Len(uploads[1].pixels)) : GrainDraw(g, noise)

GrainSpec == GrainInit /\ [][GrainNext]_vars

\* ---------------------------------------------------------------------
\* The variant that segments the person locally with BodyPix
\* (src/unnamed/part_002 lines 1-271).  handleFile, img.onload,
\* downloadImage, setLoading and enableControls are the same text as in
\* src/script.js.  A request is [file, stage, person, empty]: the image it
\* segments, how far processBackground has come, whether a person was
\* detected, and whether the mask canvas had no pixels.
\* ---------------------------------------------------------------------
NoPersonNotice == "No person detected in the image. The background blur may not work as expected. Try an image with a person in it."
RetryNotice == "Failed to process background. Please try again."

\* render() of the BodyPix variant: the cutout is drawn inside the blur
\* branch only
renderBodyPix(orig, mask, reqs, blur, grain, w, h, old) ==
  IF orig = 0 THEN [frame |-> old, threw |-> FALSE]
  ELSE
    LET blurred == mask # 0 /\ blur > 0
        base == [clearRect(old) EXCEPT
                   !.img = orig,
                   !.blur = IF blurred THEN blur ELSE old.filter,
                   !.filter = IF blurred THEN 0 ELSE old.filter]
        ms == maskState(reqs, mask)
    IN IF blurred /\ ms = "broken" THEN [frame |-> base, threw |-> TRUE]
       ELSE
         LET comp == IF blurred /\ ms = "loaded"
                     THEN [base EXCEPT !.cut = mask, !.cutBlur = base.filter]
                     ELSE base
         IN IF grain > 0
            THEN IF w = 0 \/ h = 0
                 THEN [frame |-> comp, threw |-> TRUE]
                 ELSE [frame |-> grainPass(comp, grain, <<>>), threw |-> FALSE]
            ELSE [frame |-> comp, threw |-> FALSE]

\* render() of the imgly variant without ctx.restore(): the filter set
\* for the base layer stays on the context
renderImglyNoRestore(orig, mask, reqs, blur, grain, w, h, old) ==
  IF orig = 0 THEN [frame |-> old, threw |-> FALSE]
  ELSE
    LET blurred == mask # 0 /\ blur > 0
        base == [clearRect(old) EXCEPT
                   !.img = orig,
                   !.blur = IF blurred THEN blur ELSE old.filter,
                   !.filter = IF blurred THEN blur ELSE old.filter]
        ms == maskState(reqs, mask)
    IN IF ms = "broken" THEN [frame |-> base, threw |-> TRUE]
       ELSE
         LET comp == IF ms = "loaded"
                     THEN [base EXCEPT !.cut = mask, !.cutBlur = base.filter]
                     ELSE base
         IN IF grain > 0
            THEN IF w = 0 \/ h = 0
                 THEN [frame |-> comp, threw |-> TRUE]
                 ELSE [frame |-> grainPass(comp, grain, <<>>), threw |-> FALSE]
            ELSE [frame |-> comp, threw |-> FALSE]

\* render() of the imgly variant (src/unnamed/part_002 lines 472-530): the
\* offscreen canvas is sized and filled but never drawn back; the blurred
\* base is the image drawn with the filter, enlarged by twice the radius
\* on every side
renderImgly(orig, mask, reqs, blur, grain, w, h, old) ==
  IF orig = 0 THEN [frame |-> old, threw |-> FALSE]
  ELSE
    LET blurred == mask # 0 /\ blur > 0
        base == [clearRect(old) EXCEPT
                   !.img = orig,
                   !.blur = IF blurred THEN blur ELSE old.filter,
                   !.filter = IF blurred THEN 0 ELSE old.filter]
        ms == maskState(reqs, mask)
    IN IF ms = "broken" THEN [frame |-> base, threw |-> TRUE]
       ELSE
         LET comp == IF ms = "loaded"
                     THEN [base EXCEPT !.cut = mask, !.cutBlur = base.filter]
                     ELSE base
         IN IF grain > 0
            THEN IF w = 0 \/ h = 0
                 THEN [frame |-> comp, threw |-> TRUE]
                 ELSE [frame |-> grainPass(comp, grain, <<>>), threw |-> FALSE]
            ELSE [frame |-> comp, threw |-> FALSE]

\* the condition under which the blur handler calls processBackground
needsProcessing(v, mask, processing, orig) ==
  v > 0 /\ mask = 0 /\ ~processing /\ orig # 0

\* processBackground() up to its first await
processBackground ==
  IF isProcessing
  THEN UNCHANGED << requests, isProcessing, controlVars >>
  ELSE /\ Len(requests) < MaxRequests
       /\ isProcessing' = TRUE
       /\ setLoading(TRUE)
       /\ requests' = Append(requests, [file |-> originalImage, stage |-> "load",
                                        person |-> FALSE, empty |-> FALSE])

\* blurInput 'input' handler of the BodyPix variant
BodyPixBlur(v) ==
  /\ ~blurDisabled
  /\ LET r == renderBodyPix(originalImage, maskImage, requests, v, grainValue,
                            canvasW, canvasH, frame)
     IN /\ blurValue' = v
        /\ frame' = r.frame
        /\ IF ~r.threw /\ needsProcessing(v, maskImage, isProcessing, originalImage)
           THEN processBackground
           ELSE UNCHANGED << requests, isProcessing, controlVars >>
  /\ notice' = NoNotice
  /\ link' = NoLink
  /\ lastEvent' = [kind |-> "blur", arg |-> v]
  /\ pendingReupload' = (pendingReupload /\ v = 0)
  /\ UNCHANGED << originalImage, maskImage, fileName, currentFile, grainValue,
                  canvasShown, placeholderShown, canvasW, canvasH, uploads >>

\* grainInput 'input' handler of the BodyPix variant
BodyPixGrain(g) ==
  /\ ~grainDisabled
  /\ grainValue' = g
  /\ frame' = renderBodyPix(originalImage, maskImage, requests, blurValue, g,
                            canvasW, canvasH, frame).frame
  /\ notice' = NoNotice
  /\ link' = NoLink
  /\ lastEvent' = [kind |-> "grain", arg |-> g]
  /\ UNCHANGED << scriptVars, blurValue, controlVars, canvasShown,
                  placeholderShown, canvasW, canvasH, uploads, requests,
                  pendingReupload >>

\* the catch block of processBackground
bodyPixCatch(r, kind) ==
  /\ requests' = [requests EXCEPT ![r].stage = "failed"]
  /\ notice' = RetryNotice
  /\ isProcessing' = FALSE
  /\ setLoading(FALSE)
  /\ link' = NoLink
  /\ lastEvent' = [kind |-> kind, arg |-> r]
  /\ UNCHANGED << originalImage, maskImage, fileName, currentFile,
                  sliderVars, canvasVars, uploads, pendingReupload >>

\* loadBodyPix() resolves; segmentPerson(originalImage) is called
ModelLoaded(r) ==
  /\ requests[r].stage = "load"
  /\ requests' = [requests EXCEPT ![r].stage = "segment",
                                  ![r].file = originalImage]
  /\ notice' = NoNotice
  /\ link' = NoLink
  /\ lastEvent' = [kind |-> "modelLoaded", arg |-> r]
  /\ UNCHANGED << scriptVars, sliderVars, controlVars, canvasVars, uploads,
                  pendingReupload >>

\* loadBodyPix() rejects
ModelLoadFail(r) ==
  /\ requests[r].stage = "load"
  /\ bodyPixCatch(r, "modelLoadFail")

\* segmentPerson rejects
SegmentFail(r) ==
  /\ requests[r].stage = "segment"
  /\ bodyPixCatch(r, "segmentFail")

\* segmentPerson resolves, with or without a person in the image: the mask
\* canvas is built with the size of the main canvas, maskImage = new
\* Image(), its src is the data URL of the mask canvas
Segmented(r, person) ==
  /\ requests[r].stage = "segment"
  /\ requests' = [requests EXCEPT ![r].stage = "decode",
                                  ![r].person = person,
                                  ![r].empty = (canvasW = 0 \/ canvasH = 0)]
  /\ maskImage' = r
  /\ notice' = NoNotice
  /\ link' = NoLink
  /\ lastEvent' = [kind |-> "segmented", arg |-> r]
  /\ UNCHANGED << originalImage, fileName, isProcessing, currentFile,
                  sliderVars, controlVars, canvasVars, uploads,
                  pendingReupload >>

\* maskImage.onload of request r
BodyPixMaskLoad(r) ==
  /\ requests[r].stage = "decode"
  /\ ~requests[r].empty
  /\ requests' = [requests EXCEPT ![r].stage = "done"]
  /\ isProcessing' = FALSE
  /\ setLoading(FALSE)
  /\ notice' = IF requests[r].person THEN NoNotice ELSE NoPersonNotice
  /\ frame' = renderBodyPix(originalImage, maskImage, requests', blurValue,
                            grainValue, canvasW, canvasH, frame).frame
  /\ link' = NoLink
  /\ lastEvent' = [kind |-> "maskLoad", arg |-> r]
  /\ UNCHANGED << originalImage, maskImage, fileName, currentFile, sliderVars,
                  canvasShown, placeholderShown, canvasW, canvasH, uploads,
                  pendingReupload >>

\* the data URL of a mask canvas without pixels does not decode; the Image
\* has no error handler
BodyPixMaskError(r) ==
  /\ requests[r].stage = "decode"
  /\ requests[r].empty
  /\ requests' = [requests EXCEPT ![r].stage = "broken"]
  /\ notice' = NoNotice
  /\ link' = NoLink
  /\ lastEvent' = [kind |-> "maskError", arg |-> r]
  /\ UNCHANGED << scriptVars, sliderVars, controlVars, canvasVars, uploads,
                  pendingReupload >>

BodyPixNext ==
  \/ \E f \in FileIds : handleFile(f)
  \/ \E u \in 1..Len(uploads) : DecodeLoad(u)
  \/ \E u \in 1..Len(uploads) : DecodeError(u)
  \/ \E v \in BlurValues : BodyPixBlur(v)
  \/ \E g \in GrainValues : BodyPixGrain(g)
  \/ downloadImage
  \/ \E r \in 1..Len(requests) : ModelLoaded(r)
  \/ \E r \in 1..Len(requests) : ModelLoadFail(r)
  \/ \E r \in 1..Len(requests) : SegmentFail(r)
  \/ \E r \in 1..Len(requests), person \in BOOLEAN : Segmented(r, person)
  \/ \E r \in 1..Len(requests) : BodyPixMaskLoad(r)
  \/ \E r \in 1..Len(requests) : BodyPixMaskError(r)

BodyPixSpec == Init /\ [][BodyPixNext]_vars

\* ---------------------------------------------------------------------
\* The serverless function src/functions/remove-bg.js, the far end of the
\* fetch of removeBackground.  One invocation of exports.handler is a
\* record kept in requests:
\*   version     "plain" (lines 5-103) or "compositing" (lines 110-245)
\*   method      event.httpMethod
\*   contentType what the lower-cased headers give Busboy: "multipart",
\*               "other" (a type Busboy has no parser for) or "none"
\*   body        event.body: "form" (a complete multipart form), "cut" (a
\*               form that ends early) or "null"
\*   nfiles      number of file parts in the body
\*   key         process.env.REMBG_API_KEY is set
\*   files       files.length
\*   stage       where the invocation stands
\*   promise     state of the returned promise
\*   response    what the promise resolved with
\*   calls       number of axios.post calls made
\* The page's own variables stay as in Init.
\* ---------------------------------------------------------------------
MaxParts == 2

NoResponse == [status |-> 0, ctype |-> "", base64 |-> FALSE]

textResponse(code) == [status |-> code, ctype |-> "", base64 |-> FALSE]

pngResponse == [status |-> 200, ctype |-> "image/png", base64 |-> TRUE]

pageVars == << originalImage, maskImage, fileName, isProcessing, currentFile,
               blurValue, grainValue, blurDisabled, grainDisabled,
               downloadDisabled, overlayHidden, canvasShown, placeholderShown,
               canvasW, canvasH, frame, uploads, notice, link,
               pendingReupload >>

PageAsLoaded ==
  /\ originalImage = 0
  /\ maskImage = 0
  /\ fileName = DefaultFileName
  /\ isProcessing = FALSE
  /\ currentFile = 0
  /\ blurValue = 0
  /\ grainValue = 0
  /\ blurDisabled = TRUE
  /\ grainDisabled = TRUE
  /\ downloadDisabled = TRUE
  /\ overlayHidden = TRUE
  /\ canvasShown = FALSE
  /\ placeholderShown = TRUE
  /\ canvasW = 0
  /\ canvasH = 0
  /\ frame = BlankFrame
  /\ uploads = <<>>
  /\ notice = NoNotice
  /\ link = NoLink
  /\ pendingReupload = FALSE

HandlerInit ==
  /\ PageAsLoaded
  /\ \E ver \in {"plain", "compositing"}, m \in {"POST", "GET"},
        ct \in {"multipart", "other", "none"},
        b \in {"form", "cut", "null"}, n \in 0..MaxParts, k \in BOOLEAN :
       requests = << [version |-> ver, method |-> m, contentType |-> ct,
                      body |-> b, nfiles |-> n, key |-> k, files |-> 0,
                      stage |-> "invoked", promise |-> "pending",
                      response |-> NoResponse, calls |-> 0] >>
  /\ lastEvent = [kind |-> "invoke", arg |-> 1]

\* resolve(resp) and the return of the async function: the first
\* settlement of the promise is the one that counts
resolve(inv, resp) ==
  IF inv.promise = "pending"
  THEN [inv EXCEPT !.promise = "resolved", !.response = resp,
                   !.stage = "settled"]
  ELSE [inv EXCEPT !.stage = "settled"]

\* an exception thrown inside the promise executor rejects the promise
executorThrows(inv) ==
  IF inv.promise = "pending"
  THEN [inv EXCEPT !.promise = "rejected", !.stage = "settled"]
  ELSE [inv EXCEPT !.stage = "settled"]

handlerStep(i, kind, inv) ==
  /\ requests' = [requests EXCEPT ![i] = inv]
  /\ lastEvent' = [kind |-> kind, arg |-> i]
  /\ UNCHANGED pageVars

\* exports.handler up to the return of the promise: the method test, the
\* construction of Busboy (which throws on a missing or unsupported
\* content type), busboy.write(event.body) (which throws on a null body)
\* and busboy.end()
handler(i) ==
  /\ requests[i].stage = "invoked"
  /\ LET inv == requests[i]
     IN IF inv.method # "POST"
        THEN handlerStep(i, "handler", resolve(inv, textResponse(405)))
        ELSE IF inv.contentType # "multipart" \/ inv.body = "null"
             THEN handlerStep(i, "handler", executorThrows(inv))
             ELSE handlerStep(i, "handler", [inv EXCEPT !.stage = "parsing"])

\* busboy 'file' and the 'end' of the file's stream: files.push(...)
onFile(i) ==
  /\ requests[i].stage = "parsing"
  /\ requests[i].files < requests[i].nfiles
  /\ handlerStep(i, "file", [requests[i] EXCEPT !.files = @ + 1])

\* busboy 'error': the form ends early
onError(i) ==
  /\ requests[i].stage = "parsing"
  /\ requests[i].body = "cut"
  /\ handlerStep(i, "error", resolve(requests[i], textResponse(500)))

\* the finish handler with the key test ahead of the file test
onFinishKeyFirst(i) ==
  /\ requests[i].stage = "parsing"
  /\ requests[i].body = "form"
  /\ requests[i].files = requests[i].nfiles
  /\ LET inv == requests[i]
     IN IF ~inv.key
        THEN handlerStep(i, "finish", resolve(inv, textResponse(500)))
        ELSE IF inv.files = 0
             THEN handlerStep(i, "finish", resolve(inv, textResponse(400)))
             ELSE handlerStep(i, "finish",
                              [inv EXCEPT !.stage = "upstream",
                                          !.calls = @ + 1])

\* busboy 'finish', up to the await of axios.post
onFinish(i) ==
  /\ requests[i].stage = "parsing"
  /\ requests[i].body = "form"
  /\ requests[i].files = requests[i].nfiles
  /\ LET inv == requests[i]
     IN IF inv.files = 0
        THEN handlerStep(i, "finish", resolve(inv, textResponse(400)))
        ELSE IF ~inv.key
             THEN handlerStep(i, "finish", resolve(inv, textResponse(500)))
             ELSE handlerStep(i, "finish",
                              [inv EXCEPT !.stage = "upstream",
                                          !.calls = @ + 1])

\* the catch block of the finish handler
handlerCatch(i, kind) ==
  handlerStep(i, kind, resolve(requests[i], textResponse(502)))

\* axios.post rejects
axiosRejects(i) ==
  /\ requests[i].stage = "upstream"
  /\ handlerCatch(i, "axiosRejects")

\* axios.post resolves: the plain version answers with the cutout, the
\* compositing version goes on to Jimp
axiosResolves(i) ==
  /\ requests[i].stage = "upstream"
  /\ IF requests[i].version = "plain"
     THEN handlerStep(i, "axiosResolves", resolve(requests[i], pngResponse))
     ELSE handlerStep(i, "axiosResolves",
                      [requests[i] EXCEPT !.stage = "jimp"])

\* Jimp.read, blur, composite or getBufferAsync fails
jimpRejects(i) ==
  /\ requests[i].stage = "jimp"
  /\ handlerCatch(i, "jimpRejects")

\* the composite is encoded as PNG
jimpResolves(i) ==
  /\ requests[i].stage = "jimp"
  /\ handlerStep(i, "jimpResolves", resolve(requests[i], pngResponse))

HandlerNext ==
  \/ handler(1)
  \/ onFile(1)
  \/ onError(1)
  \/ onFinish(1)
  \/ axiosRejects(1)
  \/ axiosResolves(1)
  \/ jimpRejects(1)
  \/ jimpResolves(1)

HandlerSpec == HandlerInit /\ [][HandlerNext]_vars

\* ---------------------------------------------------------------------
\* The static file server src/server.js.  One request is a record kept in
\* requests: url is req.url, filePath and contentType what the handler
\* computed before it called fs.readFile, stage "reading" until the
\* callback of readFile has run, status and headers what writeHead was
\* given, ends the number of calls of res.end.  Paths and extensions are
\* sequences of characters.  The page's own variables stay as in Init.
\* ---------------------------------------------------------------------
MaxConnections == 2

\* process.cwd()
Cwd == <<"/","s","r","v">>

IndexPath == <<"/","i","n","d","e","x",".","h","t","m","l">>

\* the URLs requested; none has a '.' or '..' segment, a doubled slash or
\* a trailing slash, so that path.join has nothing to normalise.  The
\* query of a URL is part of req.url and so of the path that is read
Urls ==
  { <<"/">>,
    <<"/","i","n","d","e","x",".","h","t","m","l">>,
    <<"/","s","c","r","i","p","t",".","j","s">>,
    <<"/","p","i","c",".","P","N","G">>,
    <<"/","m","o","d","e","l",".","w","a","s","m">>,
    <<"/","d","a","t","a",".","b","i","n">>,
    <<"/","R","E","A","D","M","E">>,
    <<"/","v","1",".","2","/","a","p","p">>,
    <<"/","m","i","s","s","i","n","g",".","c","s","s">>,
    <<"/","d","o","c","s">>,
    <<"/","l","o","c","k","e","d",".","j","s","o","n">>,
    <<"/","i","n","d","e","x",".","h","t","m","l","?","v","=","2">> }

\* what lies under process.cwd(): regular files, a directory (readFile
\* fails with EISDIR) and a file without read permission (EACCES); any
\* other path is absent (ENOENT)
Disk ==
  << [path |-> <<"/","s","r","v","/","i","n","d","e","x",".","h","t","m","l">>, kind |-> "file"],
     [path |-> <<"/","s","r","v","/","s","c","r","i","p","t",".","j","s">>, kind |-> "file"],
     [path |-> <<"/","s","r","v","/","p","i","c",".","P","N","G">>, kind |-> "file"],
     [path |-> <<"/","s","r","v","/","m","o","d","e","l",".","w","a","s","m">>, kind |-> "file"],
     [path |-> <<"/","s","r","v","/","d","a","t","a",".","b","i","n">>, kind |-> "file"],
     [path |-> <<"/","s","r","v","/","R","E","A","D","M","E">>, kind |-> "file"],
     [path |-> <<"/","s","r","v","/","v","1",".","2","/","a","p","p">>, kind |-> "file"],
     [path |-> <<"/","s","r","v","/","d","o","c","s">>, kind |-> "dir"],
     [path |-> <<"/","s","r","v","/","l","o","c","k","e","d",".","j","s","o","n">>, kind |-> "locked"] >>

\* the mimeTypes table
mimeTypes ==
  << [ext |-> <<".","h","t","m","l">>, type |-> "text/html"],
     [ext |-> <<".","j","s">>, type |-> "application/javascript"],
     [ext |-> <<".","c","s","s">>, type |-> "text/css"],
     [ext |-> <<".","j","s","o","n">>, type |-> "application/json"],
     [ext |-> <<".","p","n","g">>, type |-> "image/png"],
     [ext |-> <<".","j","p","g">>, type |-> "image/jpg"],
     [ext |-> <<".","g","i","f">>, type |-> "image/gif"],
     [ext |-> <<".","s","v","g">>, type |-> "image/svg+xml"],
     [ext |-> <<".","w","a","v">>, type |-> "audio/wav"],
     [ext |-> <<".","m","p","4">>, type |-> "video/mp4"],
     [ext |-> <<".","w","o","f","f">>, type |-> "application/font-woff"],
     [ext |-> <<".","t","t","f">>, type |-> "application/font-ttf"],
     [ext |-> <<".","e","o","t">>, type |-> "application/vnd.ms-fontobject"],
     [ext |-> <<".","o","t","f">>, type |-> "application/font-otf"],
     [ext |-> <<".","w","a","s","m">>, type |-> "application/wasm"] >>

OctetStream == "application/octet-stream"

UpperCase == <<"A","B","C","D","E","F","G","H","I","J","K","L","M","N","O","P","Q","R","S","T","U","V","W","X","Y","Z">>
LowerCase == <<"a","b","c","d","e","f","g","h","i","j","k","l","m","n","o","p","q","r","s","t","u","v","w","x","y","z">>

\* String.prototype.toLowerCase on the letters A-Z
toLowerCase(s) ==
  [i \in 1..Len(s) |->
     IF \E k \in 1..Len(UpperCase) : UpperCase[k] = s[i]
     THEN LowerCase[CHOOSE k \in 1..Len(UpperCase) : UpperCase[k] = s[i]]
     ELSE s[i]]

\* index of the last occurrence of c in s[1..i], 0 if there is none
RECURSIVE lastIndexOf(_, _, _)
lastIndexOf(s, c, i) ==
  IF i = 0 THEN 0
  ELSE IF s[i] = c THEN i
  ELSE lastIndexOf(s, c, i - 1)

\* path.extname: from the last '.' of the last segment to the end; empty
\* without a '.' and when the only '.' is the first character of the
\* segment
extname(p) ==
  LET slash == lastIndexOf(p, "/", Len(p))
      dot == lastIndexOf(p, ".", Len(p))
  IN IF dot <= slash + 1 THEN <<>> ELSE SubSeq(p, dot, Len(p))

\* path.join(process.cwd(), filePath) for a filePath that starts with '/'
\* and needs no normalising
pathJoin(dir, p) == dir \o p

\* mimeTypes[extname] || 'application/octet-stream'
contentTypeOf(ext) ==
  IF \E k \in 1..Len(mimeTypes) : mimeTypes[k].ext = ext
  THEN mimeTypes[CHOOSE k \in 1..Len(mimeTypes) : mimeTypes[k].ext = ext].type
  ELSE OctetStream

\* what fs.readFile finds at path p: "file", "dir", "locked" or "absent"
diskKind(p) ==
  IF \E k \in 1..Len(Disk) : Disk[k].path = p
  THEN Disk[CHOOSE k \in 1..Len(Disk) : Disk[k].path = p].kind
  ELSE "absent"

NoHeaders == [contentType |-> "", coop |-> "", coep |-> ""]

ServerInit ==
  /\ PageAsLoaded
  /\ requests = <<>>
  /\ lastEvent = [kind |-> "listen", arg |-> 0]

\* the request handler up to the call of fs.readFile
onRequest(url) ==
  /\ Len(requests) < MaxConnections
  /\ LET filePath == pathJoin(Cwd, IF url = <<"/">> THEN IndexPath ELSE url)
     IN requests' = Append(requests,
                           [url |-> url, filePath |-> filePath,
                            contentType |->
                              contentTypeOf(toLowerCase(extname(filePath))),
                            stage |-> "reading", status |-> 0,
                            headers |-> NoHeaders, ends |-> 0])
  /\ lastEvent' = [kind |-> "request", arg |-> Len(requests) + 1]
  /\ UNCHANGED pageVars

\* the callback of readFile with every error answered 500
readFileDoneAlways500(i) ==
  /\ requests[i].stage = "reading"
  /\ LET req == requests[i]
         kind == diskKind(req.filePath)
     IN requests' =
          [requests EXCEPT ![i] =
             IF kind # "file"
             THEN [req EXCEPT !.stage = "ended", !.status = 500,
                              !.ends = @ + 1]
             ELSE [req EXCEPT !.stage = "ended", !.status = 200,
                              !.headers = [contentType |-> req.contentType,
                                           coop |-> "same-origin",
                                           coep |-> "require-corp"],
                              !.ends = @ + 1]]
  /\ lastEvent' = [kind |-> "readFile", arg |-> i]
  /\ UNCHANGED pageVars

\* the callback of fs.readFile for request i
readFileDone(i) ==
  /\ requests[i].stage = "reading"
  /\ LET req == requests[i]
         kind == diskKind(req.filePath)
     IN requests' =
          [requests EXCEPT ![i] =
             IF kind # "file"
             THEN IF kind = "absent"
                  THEN [req EXCEPT !.stage = "ended", !.status = 404,
                                   !.ends = @ + 1]
                  ELSE [req EXCEPT !.stage = "ended", !.status = 500,
                                   !.ends = @ + 1]
             ELSE [req EXCEPT !.stage = "ended", !.status = 200,
                              !.headers = [contentType |-> req.contentType,
                                           coop |-> "same-origin",
                                           coep |-> "require-corp"],
                              !.ends = @ + 1]]
  /\ lastEvent' = [kind |-> "readFile", arg |-> i]
  /\ UNCHANGED pageVars

ServerNext ==
  \/ \E url \in Urls : onRequest(url)
  \/ \E i \in 1..Len(requests) : readFileDone(i)

ServerSpec == ServerInit /\ [][ServerNext]_vars

\* ---------------------------------------------------------------------
\* Vocabulary of the properties
\* ---------------------------------------------------------------------
\* a request whose promise has not settled: waiting for the response, for
\* its body, or for the decode of the returned image
InFlight(r) == requests[r].stage \in {"fetch", "blob", "decode"}
InFlightSet == {r \in 1..Len(requests) : InFlight(r)}

\* a decoded cutout is installed
CutoutLoaded == maskState(requests, maskImage) = "loaded"

\* the picked file a cutout request was made for
RequestFile(r) == uploads[requests[r].file].file

ControlsDisabled == blurDisabled /\ grainDisabled /\ downloadDisabled
ControlsEnabled == ~blurDisabled /\ ~grainDisabled /\ ~downloadDisabled

\* the last step started a background-removal request
RequestStarted == Len(requests') = Len(requests) + 1

\* a MIME type that begins with the six characters of 'image/'
HasImagePrefix(t) ==
  /\ Len(t) >= 6
  /\ \A i \in 1..6 : t[i] = ImagePrefix[i]

\* the handlers in which a cutout request ends in failure
FailureKinds == {"fetchReject", "fetchNotOk", "blobReject", "maskError"}

\* ---------------------------------------------------------------------
\* C1: in every reachable state at most one cutout request is in flight,
\* also when a new file is selected while a request is outstanding.
\* ---------------------------------------------------------------------
C1_AtMostOneInFlight == Cardinality(InFlightSet) <= 1

\* ---------------------------------------------------------------------
\* C2: an installed cutout was produced from the current file; a result
\* for a superseded image is never installed.  Stated for a cutout that
\* belongs neither to the current file nor to the displayed image.
\* ---------------------------------------------------------------------
C2_CutoutOfCurrentImage ==
  CutoutLoaded =>
    \/ RequestFile(maskImage) = uploads[currentFile].file
    \/ (originalImage # 0 /\
        RequestFile(maskImage) = uploads[originalImage].file)

\* ---------------------------------------------------------------------
\* C3: whenever isProcessing is true, the blur slider, the grain slider
\* and the download button are disabled.
\* ---------------------------------------------------------------------
C3_ProcessingLocksControls == isProcessing => ControlsDisabled

\* ---------------------------------------------------------------------
\* C4: a cutout request is started only by a blur input event with
\* value > 0 handled in a state with no cutout and processing false; no
\* other event and no other state starts one.
\* ---------------------------------------------------------------------
C4_OnlyBlurStartsRequest ==
  [][ Len(requests') # Len(requests) =>
        /\ RequestStarted
        /\ lastEvent'.kind = "blur"
        /\ lastEvent'.arg > 0
        /\ blurValue' > 0
        /\ maskImage = 0
        /\ ~isProcessing ]_vars

\* a blur input has just started a request
C4_Witness ==
  /\ lastEvent.kind = "blur"
  /\ lastEvent.arg > 0
  /\ blurDisabled
  /\ Len(requests) > 0
  /\ requests[Len(requests)].stage = "fetch"

\* ---------------------------------------------------------------------
\* C5: on a decoded image with no cutout and processing false, a blur
\* input with value > 0 disables blur, grain and download, shows the
\* loading overlay and issues exactly one cutout request.
\* ---------------------------------------------------------------------
C5_FirstBlurStartsRequest ==
  [][ ( /\ lastEvent'.kind = "blur"
        /\ lastEvent'.arg > 0
        /\ ~blurDisabled
        /\ originalImage # 0
        /\ originalImage = currentFile
        /\ maskImage = 0
        /\ ~isProcessing
        /\ InFlightSet = {} )
      => ( /\ blurDisabled' /\ grainDisabled' /\ downloadDisabled'
           /\ ~overlayHidden'
           /\ RequestStarted ) ]_vars

C7_ReadyAfterDecode ==
  lastEvent.kind = "decodeLoad" =>
    /\ maskImage = 0
    /\ ~isProcessing
    /\ overlayHidden
    /\ ControlsEnabled
    /\ blurValue = 0
    /\ grainValue = 0

\* ---------------------------------------------------------------------
\* C8: selecting image B while A's decoded cutout is present discards the
\* cutout, and the next blur input with value > 0 issues a new cutout
\* request for B.
\* ---------------------------------------------------------------------
C8_ReuploadRequestsAgain ==
  [][ /\ (lastEvent'.kind = "select" /\ CutoutLoaded) => maskImage' = 0
      /\ (pendingReupload /\ lastEvent'.kind = "blur" /\ lastEvent'.arg > 0)
           => ( /\ RequestStarted
                /\ requests'[Len(requests')].file = currentFile ) ]_vars

\* ---------------------------------------------------------------------
\* C9: selecting a file whose MIME type does not start with 'image/'
\* shows 'Please upload an image file' and changes nothing else.
\* ---------------------------------------------------------------------
C9_NonImageRejected ==
  [][ ( /\ lastEvent'.kind \in {"select", "reject"}
        /\ ~HasImagePrefix(Files[lastEvent'.arg].type) )
      => ( /\ notice' = NotImageNotice
           /\ UNCHANGED << originalImage, maskImage, fileName, isProcessing,
                           currentFile, blurValue, grainValue, blurDisabled,
                           grainDisabled, downloadDisabled, overlayHidden,
                           canvasShown, placeholderShown, canvasW, canvasH,
                           frame, uploads, requests >> ) ]_vars

\* a text file has just been rejected while image and cutout are present
C9_Witness ==
  /\ lastEvent.kind = "reject"
  /\ Files[lastEvent.arg].type = TypeText
  /\ notice = NotImageNotice
  /\ originalImage # 0
  /\ CutoutLoaded

\* ---------------------------------------------------------------------
\* C10: whenever a cutout request fails (network error, response not ok,
\* body unreadable, returned bytes not decodable) the failure notice is
\* shown, processing is false, the controls are enabled, the overlay is
\* hidden and no cutout is present.
\* ---------------------------------------------------------------------
C10_FailureRestores ==
  lastEvent.kind \in FailureKinds =>
    /\ notice = FailNotice
    /\ ~isProcessing
    /\ ControlsEnabled
    /\ overlayHidden
    /\ maskImage = 0

\* ---------------------------------------------------------------------
\* C11: if the backend answers every request and every image decode
\* finishes (load or error), every started cutout request is followed by
\* a state with processing false, the overlay hidden and the controls
\* enabled.  Finite form: once every request has settled and no decode is
\* pending, the editor is not locked.
\* ---------------------------------------------------------------------
NothingPending ==
  /\ InFlightSet = {}
  /\ \A u \in 1..Len(uploads) : uploads[u].img # "loading"

C11_SettledUnlocks ==
  (Len(requests) > 0 /\ NothingPending) =>
    (~isProcessing /\ overlayHidden /\ ControlsEnabled)

\* ---------------------------------------------------------------------
\* C15: after any successful image decode the canvas has strictly
\* positive width and height.
\* ---------------------------------------------------------------------
C15_CanvasPositive ==
  lastEvent.kind = "decodeLoad" => (canvasW > 0 /\ canvasH > 0)

\* ---------------------------------------------------------------------
\* C20: for every accepted upload with file name N the download name is
\* the name without its extension followed by '_edited.png', also for
\* names with several dots and for names without a dot.
\* ---------------------------------------------------------------------
\* index of the last dot of s, 0 without a dot
RECURSIVE lastDot(_, _)
lastDot(s, i) ==
  IF i = 0 THEN 0
  ELSE IF s[i] = "." THEN i
  ELSE lastDot(s, i - 1)

\* the name without its extension
baseName(s) ==
  IF lastDot(s, Len(s)) = 0 THEN s
  ELSE SubSeq(s, 1, lastDot(s, Len(s)) - 1)

C20_DownloadName ==
  currentFile # 0 =>
    fileName = baseName(Files[uploads[currentFile].file].name) \o EditedSuffix

\* ---------------------------------------------------------------------
\* C14: for a decoded image of intrinsic size w x h the canvas is w x h
\* when w <= 1920; when w > 1920 its width is exactly 1920 and its height
\* is h scaled by 1920 / w (the integer part of h * 1920 / w, 1280 for
\* 3000 x 2000).  The width never exceeds 1920.
\* ---------------------------------------------------------------------
C14_CanvasSize ==
  lastEvent.kind = "decodeLoad" =>
    LET w == uploads[originalImage].width
        h == uploads[originalImage].height
    IN /\ canvasW <= 1920
       /\ w <= 1920 => (canvasW = w /\ canvasH = h)
       /\ w > 1920 =>
            /\ canvasW = 1920
            /\ canvasH * w <= 1920 * h
            /\ 1920 * h < (canvasH + 1) * w
       /\ (w = 3000 /\ h = 2000) => canvasH = 1280


\* ---------------------------------------------------------------------
\* C12: after every call of render() on a decoded image (blur input, grain
\* input, load of the cutout) the canvas holds exactly these layers: the
\* source as base layer, blurred with the slider's value when a cutout is
\* present and the value is above 0 and unmodified otherwise; the cutout
\* over it if and only if a cutout is present; the grain pass last if and
\* only if the grain value is above 0.
\* ---------------------------------------------------------------------
RenderEvents == {"blur", "grain", "maskLoad"}

C12_LayerSequence ==
  (lastEvent.kind \in RenderEvents /\ originalImage # 0) =>
    /\ frame.img = originalImage
    /\ frame.blur = IF maskImage # 0 /\ blurValue > 0 THEN blurValue ELSE 0
    /\ frame.cut = maskImage
    /\ frame.grain = grainValue


\* ---------------------------------------------------------------------
\* C13: render() is a full recomposition.  After a call made by a slider
\* handler the canvas is what render() draws on a blank canvas from the
\* current source image, cutout, blur value and grain value, whatever was
\* on the canvas before; in particular a call with grain 0 that follows a
\* frame with grain leaves no grain on the canvas.
\* ---------------------------------------------------------------------
SliderEvents == {"blur", "grain"}

C13_FullRecomposition ==
  (lastEvent.kind \in SliderEvents /\ originalImage # 0) =>
    /\ frame = render(originalImage, maskImage, requests, blurValue,
                      grainValue, canvasW, canvasH, BlankFrame).frame
    /\ (lastEvent.before > 0 /\ grainValue = 0) => frame.grain = 0

\* a grain input of 0 on a canvas that showed grain
C13_Witness ==
  /\ lastEvent.kind = "grain"
  /\ lastEvent.before > 0
  /\ grainValue = 0
  /\ frame.grain = 0
  /\ frame.img = originalImage
  /\ originalImage # 0


\* ---------------------------------------------------------------------
\* C16: whenever render() has drawn a blurred background with radius r on
\* a canvas of w x h, the offscreen canvas it used was (w + 2 pad) x
\* (h + 2 pad) with pad = min(3 r, 100), the source was drawn on it at
\* (pad, pad) with size w x h, and it was drawn back on the canvas at
\* (-pad, -pad): the source lands on the canvas at (0, 0) with size w x h.
\* ---------------------------------------------------------------------
C16_BlurSurface ==
  (lastEvent.kind \in RenderEvents /\ frame.blur > 0) =>
    LET pad == Min(3 * frame.blur, 100)
        s == frame.surface
    IN /\ frame.blur \in 1..15
       /\ s.pad = pad
       /\ s.ow = canvasW + 2 * pad
       /\ s.oh = canvasH + 2 * pad
       /\ s.centre = [dx |-> pad, dy |-> pad, dw |-> canvasW, dh |-> canvasH]
       /\ s.back = [dx |-> 0 - pad, dy |-> 0 - pad]
       /\ s.back.dx + s.centre.dx = 0
       /\ s.back.dy + s.centre.dy = 0

\* the largest radius on the canvas of a 3000 x 2000 image
C16_Witness ==
  /\ lastEvent.kind = "blur"
  /\ frame.blur = 15
  /\ frame.surface.pad = 45
  /\ frame.surface.ow = 2010
  /\ frame.surface.oh = 1370
  /\ canvasW = 1920
  /\ canvasH = 1280

\* ---------------------------------------------------------------------
\* C17: whenever render() has drawn a blurred background, the padding of
\* the offscreen canvas was filled from the border of the source image:
\* the top and bottom bands from its first and last row, the left and
\* right bands from its first and last column, each over the full extent
\* of the image, and each corner from the corner pixel of the image, also
\* when the image is larger than the canvas.
\* ---------------------------------------------------------------------
C17_EdgeClamp ==
  (lastEvent.kind \in RenderEvents /\ frame.blur > 0) =>
    LET W == uploads[originalImage].width
        H == uploads[originalImage].height
        s == frame.surface
        from(band) == << band.sx, band.sy, band.sw, band.sh >>
    IN /\ from(s.top) = << 0, 0, W, 1 >>
       /\ from(s.bottom) = << 0, H - 1, W, 1 >>
       /\ from(s.left) = << 0, 0, 1, H >>
       /\ from(s.right) = << W - 1, 0, 1, H >>
       /\ from(s.tl) = << 0, 0, 1, 1 >>
       /\ from(s.tr) = << W - 1, 0, 1, 1 >>
       /\ from(s.bl) = << 0, H - 1, 1, 1 >>
       /\ from(s.br) = << W - 1, H - 1, 1, 1 >>


\* ---------------------------------------------------------------------
\* C18: after a render with the grain slider at 0 the pixels of the canvas
\* are the pixels drawn before the grain step, unmodified; after a render
\* with the slider at 1..50 every pixel has the alpha it had before the
\* grain pass.
\* ---------------------------------------------------------------------
C18_GrainLeavesAlpha ==
  lastEvent.kind = "grain" =>
    LET src == uploads[originalImage].pixels
    IN /\ Len(frame.data) = Len(src)
       /\ grainValue = 0 => frame.data = src
       /\ grainValue \in 1..50 =>
            \A i \in 1..Len(src) : frame.data[i].a = src[i].a

\* a pass at intensity 50 that changed the colour of a half-transparent
\* pixel and kept its alpha
C18_Witness ==
  /\ lastEvent.kind = "grain"
  /\ grainValue = 50
  /\ uploads[1].pixels[1] = [r |-> 10, g |-> 20, b |-> 30, a |-> 128]
  /\ frame.data[1].r # 10
  /\ frame.data[1].a = 128

\* ---------------------------------------------------------------------
\* C19: after a grain pass at intensity 1..50, for every pixel the noise
\* of the pixel lies in [-strength / 2, +strength / 2] with strength =
\* intensity * 2.55, and the differences R - G and G - B are the same as
\* before the pass.
\* ---------------------------------------------------------------------
C19_Achromatic ==
  (lastEvent.kind = "grain" /\ grainValue \in 1..50) =>
    LET src == uploads[originalImage].pixels
    IN \A i \in 1..Len(src) :
         LET n == lastEvent.noise[i]
             p == src[i]
             q == frame.data[i]
         IN /\ 200 * n >= 0 - (grainValue * 255 * NoiseUnit)
            /\ 200 * n <= grainValue * 255 * NoiseUnit
            /\ q.r - q.g = p.r - p.g
            /\ q.g - q.b = p.g - p.b

\* C19 as amended: the noise of a pixel lies in [-strength / 2,
\* +strength / 2) and the same value is added to R, G and B before each is
\* stored as a byte; the differences R - G and G - B are the same as
\* before the pass for every pixel none of whose channels plus the noise
\* leaves 0..255 and whose noise is not an odd multiple of one half.
C19_AchromaticUnsaturated ==
  (lastEvent.kind = "grain" /\ grainValue \in 1..50) =>
    LET src == uploads[originalImage].pixels
    IN \A i \in 1..Len(src) :
         LET n == lastEvent.noise[i]
             p == src[i]
             q == frame.data[i]
             inside(c) == 0 <= c * NoiseUnit + n /\ c * NoiseUnit + n <= 255 * NoiseUnit
             tie == 2 * (n % NoiseUnit) = NoiseUnit
         IN /\ 200 * n >= 0 - (grainValue * 255 * NoiseUnit)
            /\ 200 * n < grainValue * 255 * NoiseUnit
            /\ (inside(p.r) /\ inside(p.g) /\ inside(p.b) /\ ~tie) =>
                 /\ q.r - q.g = p.r - p.g
                 /\ q.g - q.b = p.g - p.b
                 /\ (n >= NoiseUnit \/ 0 - n >= NoiseUnit) => q.r # p.r

\* a pass at intensity 20 that moved an unsaturated pixel by 20
C19_Witness ==
  /\ lastEvent.kind = "grain"
  /\ grainValue = 20
  /\ lastEvent.noise[1] = 4000
  /\ uploads[1].pixels[1] = [r |-> 10, g |-> 20, b |-> 30, a |-> 128]
  /\ frame.data[1] = [r |-> 30, g |-> 40, b |-> 50, a |-> 128]


\* ---------------------------------------------------------------------
\* C21: as long as no image has been decoded, also after rejected
\* selections and failed decodes, the blur slider, the grain slider and
\* the download button are disabled, the placeholder is visible, the
\* canvas is hidden and no cutout request has been issued.
\* ---------------------------------------------------------------------
NoDecodeYet == \A u \in 1..Len(uploads) : uploads[u].img # "loaded"

C21_LockedUntilDecode ==
  NoDecodeYet =>
    /\ originalImage = 0
    /\ ControlsDisabled
    /\ placeholderShown
    /\ ~canvasShown
    /\ requests = <<>>

\* a text file has just been rejected while the decode of an accepted
\* image is pending and nothing has been decoded
C21_Witness ==
  /\ NoDecodeYet
  /\ lastEvent.kind = "reject"
  /\ notice = NotImageNotice
  /\ Len(uploads) > 0
  /\ ControlsDisabled


\* ---------------------------------------------------------------------
\* C22: whenever the loading overlay is visible a cutout request is in
\* flight and blur, grain and download are disabled; whenever no request
\* is in flight the overlay is hidden.
\* ---------------------------------------------------------------------
C22_OverlayMeansInFlight ==
  /\ ~overlayHidden => (InFlightSet # {} /\ ControlsDisabled)
  /\ InFlightSet = {} => overlayHidden


\* ---------------------------------------------------------------------
\* C23 (BodyPix variant): when the segmentation finds no person, after
\* the handler that ends the request the user has been notified, the
\* controls are enabled, processing is false, the overlay is hidden and no
\* cutout is present, so that the blur handler's test for a missing
\* cutout holds again.
\* ---------------------------------------------------------------------
C23_NoSubjectReturnsReady ==
  (lastEvent.kind = "maskLoad" /\ ~requests[lastEvent.arg].person) =>
    /\ notice = NoPersonNotice
    /\ ControlsEnabled
    /\ ~isProcessing
    /\ overlayHidden
    /\ maskImage = 0
    /\ needsProcessing(MaxBlur, maskImage, isProcessing, originalImage)


\* ---------------------------------------------------------------------
\* C27: for the same state the three variants of render() leave the same
\* layers on the canvas.  After every call of render() in the BodyPix
\* variant the layers on the canvas are those the remote-API variant and
\* the imgly variant draw from the same image, cutout and slider values;
\* in particular a loaded cutout is on the canvas also with blur 0.
\* ---------------------------------------------------------------------
layers(fr) == [img |-> fr.img, blur |-> fr.blur, cut |-> fr.cut, grain |-> fr.grain]

C27_SameLayersInVariants ==
  (lastEvent.kind \in RenderEvents /\ originalImage # 0) =>
    LET api == render(originalImage, maskImage, requests, blurValue,
                      grainValue, canvasW, canvasH, BlankFrame).frame
        imgly == renderImgly(originalImage, maskImage, requests, blurValue,
                             grainValue, canvasW, canvasH, BlankFrame).frame
    IN /\ layers(imgly) = layers(api)
       /\ layers(frame) = layers(api)
       /\ CutoutLoaded => frame.cut = maskImage


\* ---------------------------------------------------------------------
\* C24: a grain input, and a blur input handled while a cutout is present
\* or with value 0, renders and changes nothing else: source image,
\* current file, cutout, processing flag, the enablement of the controls,
\* the overlay and the file name are unchanged and no cutout request is
\* issued.
\* ---------------------------------------------------------------------
C24_SliderFrame ==
  [][ ( \/ lastEvent'.kind = "grain"
        \/ (lastEvent'.kind = "blur" /\ (maskImage # 0 \/ lastEvent'.arg = 0)) )
      => ( /\ frame' = render(originalImage, maskImage, requests, blurValue',
                              grainValue', canvasW, canvasH, frame).frame
           /\ UNCHANGED << originalImage, currentFile, maskImage, isProcessing,
                           blurDisabled, grainDisabled, downloadDisabled,
                           overlayHidden, fileName, requests, uploads,
                           canvasW, canvasH, canvasShown, placeholderShown >> )
    ]_vars

\* a blur input above 0 has been handled with a loaded cutout present: the
\* frame is blurred and every request has long settled
C24_Witness ==
  /\ lastEvent.kind = "blur"
  /\ lastEvent.arg > 0
  /\ CutoutLoaded
  /\ frame.blur = lastEvent.arg
  /\ InFlightSet = {}
  /\ ~isProcessing


\* ---------------------------------------------------------------------
\* C25: between one file selection and the next the cutout variable is
\* assigned at most once.  A selection is the only step that sets the
\* variable back to null (MaskOnlyClearedBySelect), so a second assignment
\* within one lifetime is an assignment made while the variable is set.
\* ---------------------------------------------------------------------
MaskOnlyClearedBySelect ==
  [][(maskImage # 0 /\ maskImage' = 0) => lastEvent'.kind = "select"]_vars

C25_CutoutAssignedOnce ==
  [][(maskImage' # maskImage /\ maskImage' # 0) => maskImage = 0]_vars


\* ---------------------------------------------------------------------
\* C26: once an image has been decoded, whenever no handler is running the
\* canvas shows what render draws for the current source image, cutout,
\* blur value and grain value.  Every state of the model lies between two
\* handlers.  The property is stated for the states in which the cutout
\* variable is null or holds a decoded cutout and the canvas has a
\* non-empty area, leaving aside the frames a handler leaves while a
\* cutout is still decoding.
\* ---------------------------------------------------------------------
composition ==
  render(originalImage, maskImage, requests, blurValue, grainValue,
         canvasW, canvasH, BlankFrame).frame

C26_CanvasShowsState ==
  ( /\ originalImage # 0
    /\ canvasW > 0 /\ canvasH > 0
    /\ maskState(requests, maskImage) \in {"null", "loaded"} )
  => frame = composition


\* ---------------------------------------------------------------------
\* C28: selecting a file that passes the MIME test but never decodes
\* leaves the state as it was: the cutout of the installed image, the
\* current file, the download file name and the processing flag are
\* unchanged.
\* ---------------------------------------------------------------------
C28_FailedDecodeKeepsState ==
  [][ (lastEvent'.kind = "select" /\ ~Files[lastEvent'.arg].decodable)
      => UNCHANGED << maskImage, currentFile, fileName, isProcessing >>
    ]_vars

\* ---------------------------------------------------------------------
\* C29: the name under which a download is offered is derived from the
\* file whose decoded image is on the canvas.
\* ---------------------------------------------------------------------
C29_DownloadNameMatchesCanvas ==
  lastEvent.kind = "download"
  => /\ link.href.img # 0
     /\ link.download = editedName(Files[uploads[link.href.img].file].name)

\* ---------------------------------------------------------------------
\* C30: the cutout variable is non-null only if the cutout has been
\* decoded and the processing flag is false.
\* ---------------------------------------------------------------------
C30_CutoutDecodedAndIdle ==
  maskImage # 0 => (requests[maskImage].stage = "done" /\ ~isProcessing)


\* ---------------------------------------------------------------------
\* C31: every invocation of the remove-bg handler ends with the returned
\* promise resolved, never rejected, with the status 405 for a method
\* other than POST, 400 for a POST without a file, 500 for a missing API
\* key, 502 for a failure of the upstream call or of the processing, 500
\* for a parsing error, and otherwise 200 with Content-Type image/png and
\* a base64 body.
\* ---------------------------------------------------------------------
expectedResponse(inv, kind) ==
  IF inv.method # "POST" THEN textResponse(405)
  ELSE IF kind = "error" THEN textResponse(500)
  ELSE IF inv.files = 0 THEN textResponse(400)
  ELSE IF ~inv.key THEN textResponse(500)
  ELSE IF kind \in {"axiosRejects", "jimpRejects"} THEN textResponse(502)
  ELSE pngResponse

C31_OneResponsePerInvocation ==
  \A i \in 1..Len(requests) :
    requests[i].stage = "settled"
    => /\ requests[i].promise = "resolved"
       /\ requests[i].response = expectedResponse(requests[i], lastEvent.kind)


\* ---------------------------------------------------------------------
\* C32: the handler calls the upstream API at most once per invocation,
\* and only for a POST with at least one parsed file and an API key.
\* As stated: whenever a POST is answered with neither a file nor a key,
\* the answer is 400.
\* ---------------------------------------------------------------------
upstreamGuarded(inv) ==
  /\ inv.calls <= 1
  /\ inv.calls > 0 => (inv.method = "POST" /\ inv.files >= 1 /\ inv.key)

C32_UpstreamOnceFileBeforeKey ==
  \A i \in 1..Len(requests) :
    /\ upstreamGuarded(requests[i])
    /\ ( /\ requests[i].promise = "resolved"
         /\ requests[i].method = "POST"
         /\ requests[i].files = 0
         /\ ~requests[i].key )
       => requests[i].response.status = 400

\* C32 amended: the upstream call is made at most once and only for a POST
\* with a parsed file and a key; when the form has been parsed to its end
\* with neither a file nor a key, the answer is 400.
C32_UpstreamOnceAfterParse ==
  \A i \in 1..Len(requests) :
    /\ upstreamGuarded(requests[i])
    /\ ( /\ lastEvent = [kind |-> "finish", arg |-> i]
         /\ requests[i].files = 0
         /\ ~requests[i].key )
       => (requests[i].promise = "resolved" /\ requests[i].response.status = 400)

\* the finish handler has answered a form with no file while no key is
\* configured
C32_Witness ==
  /\ lastEvent = [kind |-> "finish", arg |-> 1]
  /\ requests[1].files = 0
  /\ ~requests[1].key
  /\ requests[1].response.status = 400
  /\ requests[1].calls = 0


\* ---------------------------------------------------------------------
\* C33: after a grain pass at intensity 1..50 every R, G, B value is in
\* 0..255 and is old value + noise, saturated to 0..255 and stored as the
\* nearest byte; no channel moves by more than intensity * 2.55 / 2 plus
\* the half unit of the rounding, which is at most 64.
\* ---------------------------------------------------------------------
saturate(v) == IF v < 0 THEN 0 ELSE IF v > MaxByte * NoiseUnit THEN MaxByte * NoiseUnit ELSE v

distance(a, b) == IF a >= b THEN a - b ELSE b - a

C33_GrainStaysInRange ==
  (lastEvent.kind = "grain" /\ grainValue \in 1..MaxGrain) =>
    LET src == uploads[originalImage].pixels
        ok(old, new, n) ==
          /\ new \in 0..MaxByte
          /\ 2 * distance(new * NoiseUnit, saturate(old * NoiseUnit + n))
               <= NoiseUnit
          /\ 2 * distance(new, old) * NoiseUnit
               <= 2 * grainValue * MaxByte + NoiseUnit
          /\ distance(new, old) <= 64
    IN \A i \in 1..Len(src) :
         /\ ok(src[i].r, frame.data[i].r, lastEvent.noise[i])
         /\ ok(src[i].g, frame.data[i].g, lastEvent.noise[i])
         /\ ok(src[i].b, frame.data[i].b, lastEvent.noise[i])

\* a pass at intensity 50 whose noise of just under 63.75 saturated the
\* red channel of a pixel at 255 and moved its green channel by 64
C33_Witness ==
  /\ lastEvent.kind = "grain"
  /\ grainValue = MaxGrain
  /\ lastEvent.noise[1] = 12749
  /\ uploads[1].pixels[1] = [r |-> 250, g |-> 100, b |-> 100, a |-> 255]
  /\ frame.data[1].r = 255
  /\ frame.data[1].g = 164


\* ---------------------------------------------------------------------
\* C34: for every value of the blur slider, 0..15, the padding is three
\* times the value and at most 45: the cap of 100 is never the smaller of
\* the two, and the offscreen canvas of a blurred background is at most
\* (w + 90) x (h + 90).
\* ---------------------------------------------------------------------
C34_PadBelowCap ==
  lastEvent.kind = "blur" =>
    /\ lastEvent.arg \in 0..15
    /\ padOf(lastEvent.arg) = 3 * lastEvent.arg
    /\ padOf(lastEvent.arg) <= 45
    /\ 3 * lastEvent.arg < 100
    /\ frame.blur > 0 =>
         /\ frame.pad = 3 * frame.blur
         /\ frame.surface.pad = frame.pad
         /\ frame.surface.ow = canvasW + 2 * frame.pad
         /\ frame.surface.oh = canvasH + 2 * frame.pad
         /\ frame.surface.ow <= canvasW + 90
         /\ frame.surface.oh <= canvasH + 90

\* the slider at its maximum over a loaded cutout: the padding is 45 and
\* the offscreen canvas exactly 90 larger than the canvas each way
C34_Witness ==
  /\ lastEvent.kind = "blur"
  /\ lastEvent.arg = 15
  /\ CutoutLoaded
  /\ frame.blur = 15
  /\ frame.pad = 45
  /\ frame.surface.ow = canvasW + 90
  /\ frame.surface.oh = canvasH + 90


\* ---------------------------------------------------------------------
\* C35: the nine rectangles that render() paints on the offscreen canvas
\* (centre, four bands, four corners) are pairwise disjoint and together
\* cover the whole (w + 2 pad) x (h + 2 pad) canvas, for a canvas of
\* w x h with w, h >= 1 and pad >= 1.  Rectangles that lie inside the
\* surface, do not overlap and whose areas add up to the area of the
\* surface cover it.
\* ---------------------------------------------------------------------
destinations(s) ==
  << s.centre, s.top, s.bottom, s.left, s.right, s.tl, s.tr, s.bl, s.br >>

disjoint(a, b) ==
  \/ a.dx + a.dw <= b.dx
  \/ b.dx + b.dw <= a.dx
  \/ a.dy + a.dh <= b.dy
  \/ b.dy + b.dh <= a.dy

inside(a, W, H) ==
  /\ a.dw >= 1 /\ a.dh >= 1
  /\ a.dx >= 0 /\ a.dx + a.dw <= W
  /\ a.dy >= 0 /\ a.dy + a.dh <= H

RECURSIVE areaSum(_, _)
areaSum(rects, n) ==
  IF n = 0 THEN 0 ELSE rects[n].dw * rects[n].dh + areaSum(rects, n - 1)

C35_NineRectanglesTile ==
  ( /\ lastEvent.kind \in RenderEvents
    /\ frame.blur > 0
    /\ canvasW >= 1 /\ canvasH >= 1 ) =>
    LET d == destinations(frame.surface)
        W == canvasW + 2 * frame.pad
        H == canvasH + 2 * frame.pad
    IN /\ frame.pad >= 1
       /\ \A i \in 1..9 : inside(d[i], W, H)
       /\ \A i \in 1..9 : \A j \in 1..9 : i # j => disjoint(d[i], d[j])
       /\ areaSum(d, 9) = W * H

\* the smallest case, a canvas of one pixel with the padding of blur 1,
\* and nine rectangles on a surface of 7 x 7
C35_Witness ==
  /\ lastEvent.kind = "blur"
  /\ frame.blur = 1
  /\ canvasW = 1
  /\ canvasH = 1
  /\ frame.surface.ow = 7
  /\ areaSum(destinations(frame.surface), 9) = 49


\* ---------------------------------------------------------------------
\* C36: the blur filter is on the context for the base layer only.  In
\* each of the three variants of render the filter is 'none' when the
\* cutout is drawn and when render returns, on the paths that end in an
\* exception too, so the cutout is never blurred and a render with the
\* slider at 0 draws an unblurred base.
\* ---------------------------------------------------------------------
filterScoped(fr, blur) ==
  /\ fr.filter = 0
  /\ fr.cutBlur = 0
  /\ fr.blur \in {0, blur}
  /\ blur = 0 => fr.blur = 0

C36_FilterOnBaseOnly ==
  /\ frame.filter = 0
  /\ frame.cutBlur = 0
  /\ (lastEvent.kind \in RenderEvents /\ originalImage # 0) =>
       /\ filterScoped(frame, blurValue)
       /\ filterScoped(renderBodyPix(originalImage, maskImage, requests,
                                     blurValue, grainValue, canvasW, canvasH,
                                     frame).frame,
                       blurValue)
       /\ filterScoped(renderImgly(originalImage, maskImage, requests,
                                   blurValue, grainValue, canvasW, canvasH,
                                   frame).frame,
                       blurValue)

\* a blurred base with the sharp cutout over it, drawn by a blur input
C36_Witness ==
  /\ lastEvent.kind = "blur"
  /\ blurValue > 0
  /\ CutoutLoaded
  /\ frame.blur = blurValue
  /\ frame.cut = maskImage
  /\ frame.cutBlur = 0
  /\ frame.filter = 0


\* ---------------------------------------------------------------------
\* C37: the static file server answers every request once.  '/' is served
\* as '/index.html'; a missing file gives 404, any other read error 500,
\* both without headers; a file that is read gives 200 with the
\* Content-Type of its extension (application/octet-stream for an unknown
\* one) and the headers Cross-Origin-Opener-Policy: same-origin and
\* Cross-Origin-Embedder-Policy: require-corp.
\* ---------------------------------------------------------------------
\* status and Content-Type that each URL is to be answered with
ExpectedAnswers ==
  { [url |-> <<"/">>, status |-> 200, type |-> "text/html"],
    [url |-> <<"/","i","n","d","e","x",".","h","t","m","l">>, status |-> 200, type |-> "text/html"],
    [url |-> <<"/","s","c","r","i","p","t",".","j","s">>, status |-> 200, type |-> "application/javascript"],
    [url |-> <<"/","p","i","c",".","P","N","G">>, status |-> 200, type |-> "image/png"],
    [url |-> <<"/","m","o","d","e","l",".","w","a","s","m">>, status |-> 200, type |-> "application/wasm"],
    [url |-> <<"/","d","a","t","a",".","b","i","n">>, status |-> 200, type |-> "application/octet-stream"],
    [url |-> <<"/","R","E","A","D","M","E">>, status |-> 200, type |-> "application/octet-stream"],
    [url |-> <<"/","v","1",".","2","/","a","p","p">>, status |-> 200, type |-> "application/octet-stream"],
    [url |-> <<"/","m","i","s","s","i","n","g",".","c","s","s">>, status |-> 404, type |-> ""],
    [url |-> <<"/","d","o","c","s">>, status |-> 500, type |-> ""],
    [url |-> <<"/","l","o","c","k","e","d",".","j","s","o","n">>, status |-> 500, type |-> ""],
    [url |-> <<"/","i","n","d","e","x",".","h","t","m","l","?","v","=","2">>, status |-> 404, type |-> ""] }

C37_OneAnswerPerRequest ==
  \A i \in 1..Len(requests) :
    LET req == requests[i]
    IN /\ req.stage = "reading" => (req.ends = 0 /\ req.status = 0)
       /\ req.stage = "ended" =>
            /\ req.ends = 1
            /\ \E e \in ExpectedAnswers :
                 /\ e.url = req.url
                 /\ req.status = e.status
                 /\ req.headers =
                      IF e.status = 200
                      THEN [contentType |-> e.type, coop |-> "same-origin",
                            coep |-> "require-corp"]
                      ELSE NoHeaders

\* '/' has been answered with the page and a missing style sheet with 404
C37_Witness ==
  /\ Len(requests) = 2
  /\ requests[1].url = <<"/">>
  /\ requests[1].status = 200
  /\ requests[1].headers.contentType = "text/html"
  /\ requests[2].url = <<"/","m","i","s","s","i","n","g",".","c","s","s">>
  /\ requests[2].status = 404
  /\ requests[2].headers = NoHeaders
====
